---- MODULE Spec2Model ----
(***************************************************************************)
(* A model of UE4-DDS-Tools: the texture object (Utexture) of a cooked     *)
(* package, its mip list and bulk-data placement, the DDS object it is     *)
(* exported to and injected from, and the DDS file codec.                  *)
(*                                                                         *)
(* Byte buffers (mip data, DDS slices, property blocks) are modelled by    *)
(* their lengths; 32-bit words whose top bits matter (packed_data) are     *)
(* modelled as a set of flag bits plus the low-bit value.                  *)
(***************************************************************************)
EXTENDS Integers, Sequences, FiniteSets, TLC

VARIABLES
    version,    \* Utexture.version (VersionInfo of the owning Uasset)
    tex,        \* the Utexture object
    op,         \* the last operation that ran on the texture
    result,     \* "ok" or "error" (the operation raised)
    arg,        \* the DDS object handed to the last inject_dds, as a list of one
    dds,        \* the DDS object get_dds or DDS.load returned, as a list of one
    file,       \* the file that is read
    saved       \* the file that was written, as a list of one

vars == <<version, tex, op, result, arg, dds, file, saved>>

(***************************************************************************)
(* Small helpers.                                                          *)
(***************************************************************************)
Min(a, b) == IF a < b THEN a ELSE b

Max(a, b) == IF a > b THEN a ELSE b

RECURSIVE Pow2(_)
Pow2(n) == IF n = 0 THEN 1 ELSE 2 * Pow2(n - 1)

\* x & (1 << b) > 0 for a non-negative integer x
HasBit(x, b) == (x \div Pow2(b)) % 2 = 1

\* x | (1 << b)
SetBit(x, b) == IF HasBit(x, b) THEN x ELSE x + Pow2(b)

RECURSIVE SumSeq(_)
SumSeq(s) == IF s = <<>> THEN 0 ELSE Head(s) + SumSeq(Tail(s))

\* len(buf[offset: offset + size]) for a buffer of length len: Python slices
\* are clipped to the buffer, they never raise.
SliceLen(len, offset, size) == Min(len, offset + size) - Min(len, offset)

(***************************************************************************)
(* unreal/version.py                                                       *)
(***************************************************************************)
\* ver.split('.') with each part read as an int, for the version strings the
\* program compares against
SplitVersion ==
    [s \in {"3", "4", "5", "4.0", "4.1", "4.99", "4.100", "4.0.100", "4.20.1",
            "4.20.2", "5.0.2", "4.2", "4.3", "4.4", "4.5", "4.6", "4.7", "4.8", "4.9",
            "4.10", "4.11", "4.17", "4.19", "4.21", "4.12", "4.13", "4.14", "4.15", "4.16", "4.18", "4.20", "4.22", "4.23",
            "4.24", "4.25", "4.26", "4.27", "5.0", "5.1", "5.2", "5.3"} |->
        CASE s = "3" -> <<3>> [] s = "4" -> <<4>> [] s = "5" -> <<5>>
          [] s = "4.0" -> <<4, 0>> [] s = "4.1" -> <<4, 1>>
          [] s = "4.99" -> <<4, 99>> [] s = "4.100" -> <<4, 100>>
          [] s = "4.0.100" -> <<4, 0, 100>> [] s = "4.20.1" -> <<4, 20, 1>>
          [] s = "4.20.2" -> <<4, 20, 2>> [] s = "5.0.2" -> <<5, 0, 2>>
          [] s = "4.2" -> <<4, 2>> [] s = "4.3" -> <<4, 3>>
          [] s = "4.4" -> <<4, 4>> [] s = "4.5" -> <<4, 5>>
          [] s = "4.6" -> <<4, 6>> [] s = "4.7" -> <<4, 7>>
          [] s = "4.8" -> <<4, 8>> [] s = "4.9" -> <<4, 9>>
          [] s = "4.10" -> <<4, 10>> [] s = "4.11" -> <<4, 11>>
          [] s = "4.17" -> <<4, 17>> [] s = "4.19" -> <<4, 19>>
          [] s = "4.21" -> <<4, 21>>
          [] s = "4.12" -> <<4, 12>>
          [] s = "4.13" -> <<4, 13>> [] s = "4.14" -> <<4, 14>>
          [] s = "4.15" -> <<4, 15>> [] s = "4.16" -> <<4, 16>>
          [] s = "4.18" -> <<4, 18>> [] s = "4.20" -> <<4, 20>>
          [] s = "4.22" -> <<4, 22>> [] s = "4.23" -> <<4, 23>>
          [] s = "4.24" -> <<4, 24>> [] s = "4.25" -> <<4, 25>>
          [] s = "4.26" -> <<4, 26>> [] s = "4.27" -> <<4, 27>>
          [] s = "5.0" -> <<5, 0>> [] s = "5.1" -> <<5, 1>>
          [] s = "5.2" -> <<5, 2>> [] s = "5.3" -> <<5, 3>>]

\* version_as_int with one decimal digit for a component
version_as_int_base10(ver) ==
    LET ver_str == SplitVersion[ver]
    IN  SumSeq([i \in 1..Len(ver_str) |->
                  ver_str[i] * (CASE i = 1 -> 100 [] i = 2 -> 10 [] OTHER -> 1)])

\* version_as_int
version_as_int(ver) ==
    LET ver_str == SplitVersion[ver]
    IN  SumSeq([i \in 1..Len(ver_str) |->
                  ver_str[i] * (CASE i = 1 -> 10000 [] i = 2 -> 100 [] OTHER -> 1)])

\* VersionInfo.__init__
VersionInfo(v) ==
    LET base == CASE v = "ff7r" -> "4.18" [] v = "borderlands3" -> "4.22" [] OTHER -> v
        custom == IF v \in {"ff7r", "borderlands3"} THEN v ELSE "None"
    IN  [base |-> base, custom |-> custom, base_int |-> version_as_int(base)]

\* VersionInfo.__ge__ / __le__ against a version string
VersionGE(v, s) == v.base_int >= version_as_int(s)

VersionLE(v, s) == v.base_int <= version_as_int(s)

\* VersionInfo.__eq__ against a string (a custom name or a base version)
VersionEQ(v, s) == s \in {v.base, v.custom}

\* VersionInfo.__ne__ against a string
VersionNE(v, s) == v.base # s /\ v.custom # s

\* VersionInfo.__lt__ / __gt__ against a version string
VersionLT(v, s) == v.base_int < version_as_int(s)

VersionGT(v, s) == v.base_int > version_as_int(s)

\* VersionInfo.copy
VersionInfo_copy(v) ==
    IF v.custom = "None"
    THEN [VersionInfo(v.base) EXCEPT !.base_int = v.base_int]
    ELSE [VersionInfo(v.custom) EXCEPT !.base_int = v.base_int]

(***************************************************************************)
(* unreal/data_resource.py                                                 *)
(***************************************************************************)
\* BulkDataFlags, as bit positions
BULKDATA_PayloadAtEndOfFile == 0
BULKDATA_SingleUse == 3
BULKDATA_Unused == 5
BULKDATA_ForceInlinePayload == 6
BULKDATA_PayloadInSeperateFile == 8
BULKDATA_Force_NOT_InlinePayload == 10
BULKDATA_OptionalPayload == 11
BULKDATA_Size64Bit == 13
BULKDATA_NoOffsetFixUp == 16

\* BulkType
BulkType == {"UNKNOWN", "UEXP", "UBULK", "UPTNL", "NONE"}

\* DataResourceBase.__init__
DataResourceBase ==
    [bulk_flags |-> 0, bulk_type |-> "UNKNOWN", has_wrong_offset |-> FALSE,
     has_64bit_size |-> FALSE, data_size |-> 0, offset |-> 0]

\* DataResourceBase.unpack_bulk_flags raises (a flag this version cannot have)
unpack_bulk_flags_raises(bulk_flags, ver) ==
    /\ ~(VersionEQ(ver, "ff7r") \/ VersionGE(ver, "4.26"))
    /\ HasBit(bulk_flags, BULKDATA_NoOffsetFixUp)
    /\ VersionLE(ver, "4.23")

\* DataResourceBase.unpack_bulk_flags: the data resource after its flag word
\* was read
unpack_bulk_flags(dr, ver) ==
    LET bulk_type ==
            IF HasBit(dr.bulk_flags, BULKDATA_ForceInlinePayload) THEN "UEXP"
            ELSE IF HasBit(dr.bulk_flags, BULKDATA_Unused) THEN "NONE"
            ELSE IF HasBit(dr.bulk_flags, BULKDATA_OptionalPayload) THEN "UPTNL"
            ELSE "UBULK"
        has_wrong_offset ==
            IF VersionEQ(ver, "ff7r") \/ VersionGE(ver, "4.26")
            THEN ~HasBit(dr.bulk_flags, BULKDATA_NoOffsetFixUp)
            ELSE TRUE
    IN  [dr EXCEPT !.bulk_type = bulk_type,
                   !.has_wrong_offset = has_wrong_offset,
                   !.has_64bit_size = HasBit(dr.bulk_flags, BULKDATA_Size64Bit)]

\* update_bulk_flags with BULKDATA_NoOffsetFixUp set for every version
update_bulk_flags_no_fix_up(dr, ver) ==
    LET f0 == CASE dr.bulk_type = "UEXP" ->
                     IF ~VersionEQ(ver, "ff7r")
                     THEN SetBit(Pow2(BULKDATA_ForceInlinePayload), BULKDATA_SingleUse)
                     ELSE Pow2(BULKDATA_ForceInlinePayload)
                [] dr.bulk_type = "NONE" -> Pow2(BULKDATA_Unused)
                [] OTHER ->
                     LET a == Pow2(BULKDATA_PayloadAtEndOfFile)
                         b == IF VersionGE(ver, "4.14")
                              THEN SetBit(a, BULKDATA_Force_NOT_InlinePayload) ELSE a
                         c == IF VersionGE(ver, "4.16")
                              THEN SetBit(b, BULKDATA_PayloadInSeperateFile) ELSE b
                         d == SetBit(c, BULKDATA_NoOffsetFixUp)
                     IN  IF dr.bulk_type = "UPTNL"
                         THEN SetBit(d, BULKDATA_OptionalPayload) ELSE d
        f1 == IF dr.has_64bit_size THEN SetBit(f0, BULKDATA_Size64Bit) ELSE f0
    IN  [dr EXCEPT !.bulk_flags = f1]

\* DataResourceBase.update_bulk_flags
update_bulk_flags(dr, ver) ==
    LET fixed == VersionEQ(ver, "ff7r") \/ VersionGE(ver, "4.26")
        f0 == CASE dr.bulk_type = "UEXP" ->
                     IF ~VersionEQ(ver, "ff7r")
                     THEN SetBit(Pow2(BULKDATA_ForceInlinePayload), BULKDATA_SingleUse)
                     ELSE Pow2(BULKDATA_ForceInlinePayload)
                [] dr.bulk_type = "NONE" -> Pow2(BULKDATA_Unused)
                [] OTHER ->
                     LET a == Pow2(BULKDATA_PayloadAtEndOfFile)
                         b == IF VersionGE(ver, "4.14")
                              THEN SetBit(a, BULKDATA_Force_NOT_InlinePayload) ELSE a
                         c == IF VersionGE(ver, "4.16")
                              THEN SetBit(b, BULKDATA_PayloadInSeperateFile) ELSE b
                         d == IF fixed THEN SetBit(c, BULKDATA_NoOffsetFixUp) ELSE c
                     IN  IF dr.bulk_type = "UPTNL"
                         THEN SetBit(d, BULKDATA_OptionalPayload) ELSE d
        f1 == IF dr.has_64bit_size THEN SetBit(f0, BULKDATA_Size64Bit) ELSE f0
    IN  [dr EXCEPT !.bulk_flags = f1,
                   !.has_wrong_offset =
                       IF dr.bulk_type \notin {"UEXP", "NONE"} /\ ~fixed THEN TRUE ELSE @]

\* DataResourceBase.update followed by LegacyDataResource.update
data_resource_update(dr, data_size, has_uexp_bulk) ==
    [dr EXCEPT !.data_size = data_size,
               !.offset = 0,
               !.bulk_type = IF has_uexp_bulk THEN "UEXP" ELSE "UBULK",
               !.has_64bit_size = data_size - 1 > 2147483647]   \* data_size > (1 << 31)

(***************************************************************************)
(* directx/dxgi_format.py: the formats the model's textures use            *)
(***************************************************************************)
\* DXGI_BYTE_PER_PIXEL
DXGI_BYTE_PER_PIXEL ==
    [f \in {"UNKNOWN", "BC3_UNORM", "BC7_UNORM", "B8G8R8A8_UNORM", "R8_UNORM",
            "R8G8_UNORM", "R8G8_SNORM"} |->
        CASE f \in {"BC3_UNORM", "BC7_UNORM", "R8_UNORM"} -> 1
          [] f \in {"R8G8_UNORM", "R8G8_SNORM"} -> 2
          [] f = "B8G8R8A8_UNORM" -> 4
          [] OTHER -> 0]

\* DXGI_FORMAT.is_compressed
dxgi_is_compressed(f) == f \in {"BC3_UNORM", "BC7_UNORM"}

\* DXGI_FORMAT.get_signed: the signed variant of a format that has one
dxgi_get_signed(f) == IF f = "R8G8_UNORM" THEN "R8G8_SNORM" ELSE f

\* FOURCC_TO_DXGI, the legacy FourCC codes the model's files use
FOURCC_TO_DXGI == [cc \in {"DXT5"} |-> "BC3_UNORM"]

\* BITMASK_TO_DXGI, the bit masks the model's files use
BITMASK_TO_DXGI ==
    [m \in {"B8G8R8A8", "R8G8"} |-> IF m = "R8G8" THEN "R8G8_UNORM" ELSE "B8G8R8A8_UNORM"]

\* DXGI_FORMAT.get_block_size
dxgi_get_block_size(f) == IF dxgi_is_compressed(f) THEN 4 ELSE 1

(***************************************************************************)
(* directx/dds.py: DDSHeader and DDS                                       *)
(***************************************************************************)
\* DDS_FLAGS.get_flags (DEFAULT = CAPS | HEIGHT | WIDTH | PIXELFORMAT | MIPMAPCOUNT)
DDS_FLAGS_get_flags(is_compressed, is_3d) ==
    LET default == Pow2(0) + Pow2(1) + Pow2(2) + Pow2(12) + Pow2(17)
        f1 == IF is_compressed THEN SetBit(default, 3) ELSE SetBit(default, 19)
    IN  IF is_3d THEN SetBit(f1, 23) ELSE f1

\* DDS_CAPS.get_caps (REQUIRED = 0x1000, MIPMAP = 0x400008, CUBEMAP = 0x8)
DDS_CAPS_get_caps(has_mips, is_cube) ==
    LET c1 == IF has_mips THEN SetBit(SetBit(Pow2(12), 22), 3) ELSE Pow2(12)
    IN  IF is_cube THEN SetBit(c1, 3) ELSE c1

\* DDS_CAPS2.get_caps2 (CUBEMAP_FULL = 0xFE00, VOLUME = 0x200000)
DDS_CAPS2_get_caps2(is_cube, is_3d) ==
    LET c1 == IF is_cube THEN 65024 ELSE 0
    IN  IF is_3d THEN SetBit(c1, 21) ELSE c1

\* DDS_CAPS2.is_cube (CUBEMAP = 0x200)
DDS_CAPS2_is_cube(caps2) == HasBit(caps2, 9)

\* DX10Header, zero-initialised by ctypes
DX10Header ==
    [dxgi_format |-> "UNKNOWN", resource_dimension |-> 0, misc_flags |-> 0,
     array_size |-> 0, misc_flags2 |-> 0]

\* DX10Header.update
DX10Header_update(dxgi_format, is_cube, is_3d, array_size) ==
    [dxgi_format |-> dxgi_format,
     resource_dimension |-> 3 + (IF is_3d THEN 1 ELSE 0),
     misc_flags |-> 4 * (IF is_cube THEN 1 ELSE 0),
     array_size |-> array_size,
     misc_flags2 |-> 0]

\* DDSPixelFormat.__init__
DDSPixelFormat ==
    [size |-> 32, flags |-> 4, fourCC |-> "DX10", bit_count |-> 0, bit_mask |-> "0,0,0,0"]

\* DDSHeader.__init__; reserved stands for the fields reserved, null and
\* reserved2: 0 when all of them are zero
DDSHeader ==
    [magic |-> "DDS ", head_size |-> 124, flags |-> 0, height |-> 0, width |-> 0,
     pitch_or_linear_size |-> 0, depth |-> 0, mipmap_num |-> 1,
     reserved |-> 0, tool_name |-> "UEDT", pixel_format |-> DDSPixelFormat,
     caps |-> 0, caps2 |-> 0, dx10_header |-> DX10Header, dxgi_format |-> "UNKNOWN", byte_per_pixel |-> 0]

\* DDSHeader.is_3d
DDSHeader_is_3d(h) == h.depth > 1

\* DDSHeader.is_cube
DDSHeader_is_cube(h) == DDS_CAPS2_is_cube(h.caps2)

\* DDSHeader.is_array (DX10Header.is_array)
DDSHeader_is_array(h) == h.dx10_header.array_size > 1

\* DDSHeader.get_array_size
DDSHeader_get_array_size(h) == h.dx10_header.array_size

\* DDSHeader.get_num_slices
DDSHeader_get_num_slices(h) ==
    DDSHeader_get_array_size(h) * h.depth * (1 + (IF DDSHeader_is_cube(h) THEN 1 ELSE 0) * 5)

\* DDSHeader.get_texture_type
DDSHeader_get_texture_type(h) ==
    IF DDSHeader_is_3d(h) THEN "3D"
    ELSE IF DDSHeader_is_cube(h)
         THEN (IF DDSHeader_is_array(h) THEN "CubeArray" ELSE "Cube")
         ELSE (IF DDSHeader_is_array(h) THEN "2DArray" ELSE "2D")

\* DDSHeader.update that adds the new cap bits to those the header holds
DDSHeader_update_keep_caps(h, width, height, depth, mipmap_num, dxgi_format, is_cube, array_size) ==
    LET is_3d == depth > 1
        bpp == DXGI_BYTE_PER_PIXEL[dxgi_format]
        compressed == dxgi_is_compressed(dxgi_format)
        caps == DDS_CAPS_get_caps(mipmap_num > 1, is_cube)
    IN  [h EXCEPT
           !.width = width, !.height = height, !.depth = depth,
           !.mipmap_num = mipmap_num, !.dxgi_format = dxgi_format,
           !.flags = DDS_FLAGS_get_flags(compressed, is_3d),
           !.pitch_or_linear_size = IF compressed THEN width * height * bpp
                                    ELSE width * bpp,
           !.caps = IF HasBit(@, 22) THEN SetBit(SetBit(caps, 22), 3) ELSE caps,
           !.caps2 = IF HasBit(@, 21)
                     THEN SetBit(DDS_CAPS2_get_caps2(is_cube, is_3d), 21)
                     ELSE DDS_CAPS2_get_caps2(is_cube, is_3d),
           !.dx10_header = DX10Header_update(dxgi_format, is_cube, is_3d, array_size),
           !.pixel_format = [@ EXCEPT !.fourCC = "DX10"]]

\* DDSHeader.update
DDSHeader_update(h, width, height, depth, mipmap_num, dxgi_format, is_cube, array_size) ==
    LET is_3d == depth > 1
        bpp == DXGI_BYTE_PER_PIXEL[dxgi_format]
        compressed == dxgi_is_compressed(dxgi_format)
    IN  [h EXCEPT
           !.width = width, !.height = height, !.depth = depth,
           !.mipmap_num = mipmap_num, !.dxgi_format = dxgi_format,
           !.flags = DDS_FLAGS_get_flags(compressed, is_3d),
           !.pitch_or_linear_size = IF compressed THEN width * height * bpp
                                    ELSE width * bpp,
           !.caps = DDS_CAPS_get_caps(mipmap_num > 1, is_cube),
           !.caps2 = DDS_CAPS2_get_caps2(is_cube, is_3d),
           !.dx10_header = DX10Header_update(dxgi_format, is_cube, is_3d, array_size),
           !.pixel_format = [@ EXCEPT !.fourCC = "DX10"]]

\* cail(val, unit) in get_size_list and get_dds: val rounded up to a multiple of unit
cail(val, unit) ==
    LET remain == val % unit
    IN  val + (unit - remain) * (IF remain # 0 THEN 1 ELSE 0)

\* DDSHeader.get_size_list: the [width, height] of each mip ...
RECURSIVE get_size_list_from(_, _, _, _)
get_size_list_from(h, width, height, n) ==
    IF n = 0 THEN <<>>
    ELSE LET block_size == dxgi_get_block_size(h.dxgi_format)
             w == IF dxgi_is_compressed(h.dxgi_format) THEN cail(width, block_size) ELSE width
             hh == IF dxgi_is_compressed(h.dxgi_format) THEN cail(height, block_size) ELSE height
         IN  <<<<w, hh>>>> \o get_size_list_from(h, Max(block_size, width \div 2),
                                                 Max(block_size, height \div 2), n - 1)

get_size_list(h) == get_size_list_from(h, h.width, h.height, h.mipmap_num)

\* ... and the byte size of one slice
get_slice_size(h) ==
    LET sizes == get_size_list(h)
    IN  SumSeq([i \in 1..Len(sizes) |->
                  sizes[i][1] * sizes[i][2] * DXGI_BYTE_PER_PIXEL[h.dxgi_format]])

\* DDS.__init__
DDS(header, slices, mipmap_sizes) ==
    [header |-> header, slice_bin_list |-> slices, mipmap_size_list |-> mipmap_sizes]

\* DDS.get_texture_type
DDS_get_texture_type(d) == DDSHeader_get_texture_type(d.header)

\* DDS.get_array_size
DDS_get_array_size(d) == DDSHeader_get_array_size(d.header)

\* DDSHeader.disassemble
DDSHeader_disassemble(h) ==
    DDSHeader_update(h, h.width, h.height, 1, h.mipmap_num, h.dxgi_format,
                     DDSHeader_is_cube(h), 1)

\* DDSHeader.assemble
DDSHeader_assemble(h, is_array, size) ==
    IF is_array
    THEN DDSHeader_update(h, h.width, h.height, 1, h.mipmap_num, h.dxgi_format,
                          DDSHeader_is_cube(h), size)
    ELSE DDSHeader_update(h, h.width, h.height, size, h.mipmap_num, h.dxgi_format,
                          DDSHeader_is_cube(h), 1)

\* DDS.get_disassembled_dds_list: one DDS per array element or depth layer,
\* all of them with the one disassembled header
DDS_get_disassembled_dds_list(d) ==
    LET new_dds_num == d.header.depth * DDS_get_array_size(d)
        num_slices == 1 + 5 * (IF DDSHeader_is_cube(d.header) THEN 1 ELSE 0)
        n == Len(d.slice_bin_list)
    IN  [i \in 1..new_dds_num |->
            DDS(DDSHeader_disassemble(d.header),
                SubSeq(d.slice_bin_list, Min(n, (i - 1) * num_slices) + 1,
                       Min(n, i * num_slices)),
                d.mipmap_size_list)]

\* DDS.assemble raises: dds_list[0] of an empty list, or files that differ in
\* format or mip sizes
DDS_assemble_raises(dds_list) ==
    \/ Len(dds_list) = 0
    \/ \E i \in 2..Len(dds_list) :
          \/ dds_list[i].header.dxgi_format # dds_list[1].header.dxgi_format
          \/ dds_list[i].mipmap_size_list # dds_list[1].mipmap_size_list

\* the concatenation of the slice lists of dds_list[i..]
RECURSIVE sum_slice_bin_lists(_, _)
sum_slice_bin_lists(dds_list, i) ==
    IF i > Len(dds_list) THEN <<>>
    ELSE dds_list[i].slice_bin_list \o sum_slice_bin_lists(dds_list, i + 1)

\* DDS.assemble
DDS_assemble(dds_list, is_array) ==
    DDS(DDSHeader_assemble(dds_list[1].header, is_array, Len(dds_list)),
        sum_slice_bin_lists(dds_list, 1), dds_list[1].mipmap_size_list)

\* UNCANONICAL_FOURCC
UNCANONICAL_FOURCC ==
    {"PTC2", "PTC4", "ATC", "ATCA", "ATCE", "ATCI", "AS44", "AS55", "AS66", "AS85",
     "AS86", "AS:5"}

\* DDSPixelFormat.is_dx10
is_dx10(pf) == pf.fourCC = "DX10"

\* DDSPixelFormat.get_dxgi raises for a non-standard FourCC
pixel_format_get_dxgi_raises(pf) == pf.fourCC \in UNCANONICAL_FOURCC

\* DDSPixelFormat.get_dxgi (PF_FLAGS.FOURCC = 0x4, PF_FLAGS.BUMPDUDV = 0x80000)
pixel_format_get_dxgi(pf) ==
    IF HasBit(pf.flags, 2) /\ pf.fourCC \in DOMAIN FOURCC_TO_DXGI
    THEN FOURCC_TO_DXGI[pf.fourCC]
    ELSE IF pf.bit_mask \notin DOMAIN BITMASK_TO_DXGI THEN "B8G8R8A8_UNORM"
    ELSE IF HasBit(pf.flags, 19) THEN dxgi_get_signed(BITMASK_TO_DXGI[pf.bit_mask])
    ELSE BITMASK_TO_DXGI[pf.bit_mask]

\* DX10Header.get_dxgi raises for a format number above DXGI_FORMAT.get_max_dx10()
dx10_get_dxgi_raises(dx10) == dx10.dxgi_format = "BEYOND_DX10"

\* A DDS file: the bytes of the fixed header (head, of which the file holds
\* the first head_len), of the DX10 extension (dx10, of which it holds the
\* first dx10_len) and the number of bytes after them (data).  The offset
\* past each field of DDSHeader._fields_ and DX10Header._fields_:
HeaderFieldEnd ==
    [magic |-> 4, head_size |-> 8, flags |-> 12, height |-> 16, width |-> 20,
     pitch_or_linear_size |-> 24, depth |-> 28, mipmap_num |-> 32, tool_name |-> 72,
     pixel_format |-> 108, caps |-> 112, caps2 |-> 116, reserved |-> 128]

DX10FieldEnd ==
    [dxgi_format |-> 4, resource_dimension |-> 8, misc_flags |-> 12,
     array_size |-> 16, misc_flags2 |-> 20]

\* f.readinto(head): the fields the file holds replace those of the constructor
readinto_head(f) ==
    [k \in DOMAIN HeaderFieldEnd |->
        IF HeaderFieldEnd[k] <= f.head_len THEN f.head[k] ELSE DDSHeader[k]]

\* f.readinto(head.dx10_header)
readinto_dx10(f) ==
    [k \in DOMAIN DX10FieldEnd |->
        IF DX10FieldEnd[k] <= f.dx10_len THEN f.dx10[k] ELSE DX10Header[k]]

\* DDSHeader.read, the header it returns when it does not raise
DDSHeader_read(f) ==
    LET raw == readinto_head(f)
        head == [k \in DOMAIN DDSHeader |->
                    IF k \in DOMAIN raw THEN raw[k] ELSE DDSHeader[k]]
        h1 == [head EXCEPT !.mipmap_num = @ + (IF @ = 0 THEN 1 ELSE 0),
                           !.depth = @ + (IF @ = 0 THEN 1 ELSE 0)]
        h2 == IF is_dx10(h1.pixel_format)
              THEN [h1 EXCEPT !.dx10_header = readinto_dx10(f),
                              !.dxgi_format = readinto_dx10(f).dxgi_format]
              ELSE [h1 EXCEPT !.dxgi_format = pixel_format_get_dxgi(h1.pixel_format),
                              !.dx10_header =
                                  DX10Header_update(pixel_format_get_dxgi(h1.pixel_format),
                                                    DDSHeader_is_cube(h1),
                                                    DDSHeader_is_3d(h1), 1)]
    IN  [h2 EXCEPT !.byte_per_pixel = DXGI_BYTE_PER_PIXEL[h2.dxgi_format]]

\* DDSHeader.read raises
DDSHeader_read_raises(f) ==
    LET raw == readinto_head(f)
    IN  \/ is_dx10(raw.pixel_format) /\ dx10_get_dxgi_raises(readinto_dx10(f))
        \/ ~is_dx10(raw.pixel_format) /\ pixel_format_get_dxgi_raises(raw.pixel_format)
        \/ raw.magic # "DDS " \/ raw.head_size # 124
        \/ DDSHeader_read(f).dx10_header.resource_dimension = 2

\* DDS.load raises: the header is refused, a slice runs past the end of the
\* file (read_buffer), or bytes are left after the last slice
DDS_load_raises(f) ==
    \/ DDSHeader_read_raises(f)
    \/ LET h == DDSHeader_read(f)
       IN  DDSHeader_get_num_slices(h) * get_slice_size(h) # f.data

\* DDS.load
DDS_load(f) ==
    LET h == DDSHeader_read(f)
    IN  DDS(h, [i \in 1..DDSHeader_get_num_slices(h) |-> get_slice_size(h)],
            get_size_list(h))

\* DDSHeader.write without the DX10 extension
DDSHeader_write_no_dx10(h) ==
    [head |-> [k \in DOMAIN HeaderFieldEnd |-> h[k]], head_len |-> 128,
     dx10 |-> DX10Header, dx10_len |-> 0]

\* DDSHeader.write: the structure, then the DX10 extension of a DX10 header
DDSHeader_write(h) ==
    [head |-> [k \in DOMAIN HeaderFieldEnd |-> h[k]], head_len |-> 128,
     dx10 |-> IF is_dx10(h.pixel_format) THEN h.dx10_header ELSE DX10Header,
     dx10_len |-> IF is_dx10(h.pixel_format) THEN 20 ELSE 0]

\* DDS.save: the header, then every slice
DDS_save(d) ==
    LET w == DDSHeader_write(d.header)
    IN  [head |-> w.head, head_len |-> w.head_len, dx10 |-> w.dx10,
         dx10_len |-> w.dx10_len, data |-> SumSeq(d.slice_bin_list)]

(***************************************************************************)
(* unreal/umipmap.py: Umipmap as unreal/utexture.py uses it                *)
(***************************************************************************)
\* Umipmap.update(data, size, depth, is_uexp) on a mip whose data resource was
\* just made by init_data_resource; data is the length of the byte buffer
Umipmap_update(data, size, depth, is_uexp) ==
    [width |-> size[1], height |-> size[2], depth |-> depth, data |-> data,
     data_resource |-> data_resource_update(DataResourceBase, data, is_uexp)]

\* Umipmap.has_uexp_bulk / has_no_bulk / has_ubulk_bulk / has_uptnl_bulk
has_uexp_bulk(mip) == mip.data_resource.bulk_type = "UEXP"

has_no_bulk(mip) == mip.data_resource.bulk_type = "NONE"

has_ubulk_bulk(mip) == mip.data_resource.bulk_type = "UBULK"

has_uptnl_bulk(mip) == mip.data_resource.bulk_type = "UPTNL"

(***************************************************************************)
(* unreal/utexture.py: Utexture                                            *)
(***************************************************************************)
\* the formats of a table that gives PF_DXT3 the format of PF_DXT5
PF_TO_DXGI_dup ==
    [pf \in {"PF_DXT1", "PF_DXT3", "PF_DXT5", "PF_BC4", "PF_BC5", "PF_BC6H", "PF_BC7",
             "PF_A1", "PF_A8", "PF_G8", "PF_R8", "PF_R8G8", "PF_G16", "PF_G16R16",
             "PF_B8G8R8A8", "PF_A2B10G10R10", "PF_A16B16G16R16", "PF_FloatRGB",
             "PF_FloatR11G11B10", "PF_FloatRGBA", "PF_A32B32G32R32F",
             "PF_B5G5R5A1_UNORM", "PF_ASTC_4x4", "PF_ASTC_6x6", "PF_ASTC_8x8",
             "PF_ASTC_10x10", "PF_ASTC_12x12"} |->
        CASE pf = "PF_DXT1" -> "BC1_UNORM" [] pf = "PF_DXT3" -> "BC3_UNORM"
          [] pf = "PF_DXT5" -> "BC3_UNORM" [] pf = "PF_BC4" -> "BC4_UNORM"
          [] pf = "PF_BC5" -> "BC5_UNORM" [] pf = "PF_BC6H" -> "BC6H_UF16"
          [] pf = "PF_BC7" -> "BC7_UNORM" [] pf = "PF_A1" -> "R1_UNORM"
          [] pf = "PF_A8" -> "A8_UNORM" [] pf = "PF_G8" -> "R8_UNORM"
          [] pf = "PF_R8" -> "R8_UNORM" [] pf = "PF_R8G8" -> "R8G8_UNORM"
          [] pf = "PF_G16" -> "R16_UNORM" [] pf = "PF_G16R16" -> "R16G16_UNORM"
          [] pf = "PF_B8G8R8A8" -> "B8G8R8A8_UNORM"
          [] pf = "PF_A2B10G10R10" -> "R10G10B10A2_UNORM"
          [] pf = "PF_A16B16G16R16" -> "R16G16B16A16_UNORM"
          [] pf = "PF_FloatRGB" -> "R11G11B10_FLOAT"
          [] pf = "PF_FloatR11G11B10" -> "R11G11B10_FLOAT"
          [] pf = "PF_FloatRGBA" -> "R16G16B16A16_FLOAT"
          [] pf = "PF_A32B32G32R32F" -> "R32G32B32A32_FLOAT"
          [] pf = "PF_B5G5R5A1_UNORM" -> "B5G5R5A1_UNORM"
          [] pf = "PF_ASTC_4x4" -> "ASTC_4X4_UNORM"
          [] pf = "PF_ASTC_6x6" -> "ASTC_6X6_UNORM"
          [] pf = "PF_ASTC_8x8" -> "ASTC_8X8_UNORM"
          [] pf = "PF_ASTC_10x10" -> "ASTC_10X10_UNORM"
          [] pf = "PF_ASTC_12x12" -> "ASTC_12X12_UNORM"]

\* PF_TO_DXGI
PF_TO_DXGI ==
    [pf \in {"PF_DXT1", "PF_DXT3", "PF_DXT5", "PF_BC4", "PF_BC5", "PF_BC6H", "PF_BC7",
             "PF_A1", "PF_A8", "PF_G8", "PF_R8", "PF_R8G8", "PF_G16", "PF_G16R16",
             "PF_B8G8R8A8", "PF_A2B10G10R10", "PF_A16B16G16R16", "PF_FloatRGB",
             "PF_FloatR11G11B10", "PF_FloatRGBA", "PF_A32B32G32R32F",
             "PF_B5G5R5A1_UNORM", "PF_ASTC_4x4", "PF_ASTC_6x6", "PF_ASTC_8x8",
             "PF_ASTC_10x10", "PF_ASTC_12x12"} |->
        CASE pf = "PF_DXT1" -> "BC1_UNORM" [] pf = "PF_DXT3" -> "BC2_UNORM"
          [] pf = "PF_DXT5" -> "BC3_UNORM" [] pf = "PF_BC4" -> "BC4_UNORM"
          [] pf = "PF_BC5" -> "BC5_UNORM" [] pf = "PF_BC6H" -> "BC6H_UF16"
          [] pf = "PF_BC7" -> "BC7_UNORM" [] pf = "PF_A1" -> "R1_UNORM"
          [] pf = "PF_A8" -> "A8_UNORM" [] pf = "PF_G8" -> "R8_UNORM"
          [] pf = "PF_R8" -> "R8_UNORM" [] pf = "PF_R8G8" -> "R8G8_UNORM"
          [] pf = "PF_G16" -> "R16_UNORM" [] pf = "PF_G16R16" -> "R16G16_UNORM"
          [] pf = "PF_B8G8R8A8" -> "B8G8R8A8_UNORM"
          [] pf = "PF_A2B10G10R10" -> "R10G10B10A2_UNORM"
          [] pf = "PF_A16B16G16R16" -> "R16G16B16A16_UNORM"
          [] pf = "PF_FloatRGB" -> "R11G11B10_FLOAT"
          [] pf = "PF_FloatR11G11B10" -> "R11G11B10_FLOAT"
          [] pf = "PF_FloatRGBA" -> "R16G16B16A16_FLOAT"
          [] pf = "PF_A32B32G32R32F" -> "R32G32B32A32_FLOAT"
          [] pf = "PF_B5G5R5A1_UNORM" -> "B5G5R5A1_UNORM"
          [] pf = "PF_ASTC_4x4" -> "ASTC_4X4_UNORM"
          [] pf = "PF_ASTC_6x6" -> "ASTC_6X6_UNORM"
          [] pf = "PF_ASTC_8x8" -> "ASTC_8X8_UNORM"
          [] pf = "PF_ASTC_10x10" -> "ASTC_10X10_UNORM"
          [] pf = "PF_ASTC_12x12" -> "ASTC_12X12_UNORM"]

\* PF_TO_UNCOMPRESSED
PF_TO_UNCOMPRESSED ==
    [pf \in {"PF_DXT1", "PF_DXT3", "PF_DXT5", "PF_BC4", "PF_BC5", "PF_BC6H", "PF_BC7",
             "PF_ASTC_4x4", "PF_ASTC_6x6", "PF_ASTC_8x8", "PF_ASTC_10x10",
             "PF_ASTC_12x12"} |->
        CASE pf = "PF_BC4" -> "PF_G8"
          [] pf = "PF_BC5" -> "PF_R8G8"
          [] pf = "PF_BC6H" -> "PF_FloatRGBA"
          [] OTHER -> "PF_B8G8R8A8"]

\* PF_TO_UNCOMPRESSED (its keys)
PF_TO_UNCOMPRESSED_keys ==
    {"PF_DXT1", "PF_DXT3", "PF_DXT5", "PF_BC4", "PF_BC5", "PF_BC6H", "PF_BC7",
     "PF_ASTC_4x4", "PF_ASTC_6x6", "PF_ASTC_8x8", "PF_ASTC_10x10", "PF_ASTC_12x12"}

\* "Cube" in class_name, "Volume" in class_name, ...: the substrings of the
\* texture class names
ClassNameParts ==
    [c \in {"Texture2D", "TextureCube", "VolumeTexture", "Texture2DArray",
            "TextureCubeArray", "LightMapTexture2D"} |->
        CASE c = "Texture2D" -> {}
          [] c = "TextureCube" -> {"Cube"}
          [] c = "VolumeTexture" -> {"Volume"}
          [] c = "Texture2DArray" -> {"Array"}
          [] c = "TextureCubeArray" -> {"Cube", "Array"}
          [] c = "LightMapTexture2D" -> {"LightMap"}]

\* Utexture.__init__; the attributes serialize() sets later start out empty
Utexture_init(class_name) ==
    [loaded |-> FALSE,
     is_light_map |-> "LightMap" \in ClassNameParts[class_name],
     is_cube |-> "Cube" \in ClassNameParts[class_name],
     is_3d |-> "Volume" \in ClassNameParts[class_name],
     is_array |-> "Array" \in ClassNameParts[class_name],
     has_opt_data |-> FALSE,
     pixel_format |-> "", dxgi_format |-> "UNKNOWN", byte_per_pixel |-> 0,
     num_slices |-> 0, packed_data |-> [bits |-> {}, num |-> 0],
     imported_width |-> 0, imported_height |-> 0,
     first_mip_to_serialize |-> 0, mipmaps |-> <<>>,
     has_ubulk |-> FALSE, has_uptnl |-> FALSE]

\* Utexture.has_supported_format
has_supported_format(t) == t.pixel_format \in DOMAIN PF_TO_DXGI

\* Utexture.is_compressed
is_compressed(t) == t.pixel_format \in PF_TO_UNCOMPRESSED_keys

\* Utexture.get_block_size
get_block_size(t) == dxgi_get_block_size(t.dxgi_format)

\* DXGI_BYTE_PER_PIXEL[dxgi_format]; the formats whose quotient is not held
\* in DXGI_BYTE_PER_PIXEL above (most are fractions of a byte) give "untabulated"
byte_per_pixel_of(dxgi_format) ==
    IF dxgi_format \in DOMAIN DXGI_BYTE_PER_PIXEL
    THEN DXGI_BYTE_PER_PIXEL[dxgi_format]
    ELSE "untabulated"

\* Utexture.__update_format
update_format(t) ==
    IF ~has_supported_format(t)
    THEN [t EXCEPT !.dxgi_format = "UNKNOWN", !.byte_per_pixel = 0]
    ELSE [t EXCEPT !.dxgi_format = PF_TO_DXGI[t.pixel_format],
                   !.byte_per_pixel = byte_per_pixel_of(PF_TO_DXGI[t.pixel_format])]

\* Utexture.is_empty
is_empty(t) == Len(t.mipmaps) = 0

\* Utexture.get_texture_type
get_texture_type(t) ==
    IF t.is_3d THEN "3D"
    ELSE IF t.is_cube
         THEN (IF t.is_array THEN "CubeArray" ELSE "Cube")
         ELSE (IF t.is_array THEN "2DArray" ELSE "2D")

\* get_array_size without the division by the six faces of a cube
get_array_size_no_div(t) ==
    IF t.is_3d THEN 1 ELSE t.num_slices

\* Utexture.get_array_size
get_array_size(t) ==
    IF t.is_3d THEN 1
    ELSE IF t.is_cube THEN t.num_slices \div 6
    ELSE t.num_slices

\* Utexture.get_depth
get_depth(t) == IF t.is_3d THEN t.num_slices ELSE 1

\* Utexture.get_max_size
get_max_size(t) ==
    IF is_empty(t) THEN <<0, 0>>
    ELSE <<t.mipmaps[1].width, t.mipmaps[1].height>>

\* Utexture.get_max_uexp_size: the size of the first mip held in uexp, or of
\* the last mip when the loop ends without a break
get_max_uexp_size(t) ==
    IF is_empty(t) THEN <<0, 0>>
    ELSE LET inUexp == {i \in 1..Len(t.mipmaps) :
                          has_uexp_bulk(t.mipmaps[i]) \/ has_no_bulk(t.mipmaps[i])}
             k == IF inUexp = {} THEN Len(t.mipmaps)
                  ELSE CHOOSE i \in inUexp : \A j \in inUexp : i <= j
         IN  <<t.mipmaps[k].width, t.mipmaps[k].height>>

\* Utexture.get_mipmap_num: <<uexp_map_num, ubulk_map_num, uptnl_map_num>>
get_mipmap_num(t) ==
    LET idx == 1..Len(t.mipmaps)
        uexp == {i \in idx : has_uexp_bulk(t.mipmaps[i]) \/ has_no_bulk(t.mipmaps[i])}
        uptnl == {i \in idx \ uexp : has_uptnl_bulk(t.mipmaps[i])}
    IN  <<Cardinality(uexp), Cardinality((idx \ uexp) \ uptnl), Cardinality(uptnl)>>

\* the mask (1 << 30 + 1 << 31) of __unpack_packed_data as Python evaluates it:
\* + binds tighter than <<, so it is (1 << 31) << 31, the single bit 62
PackedFlagMask == {(30 + 1) + 31}

\* packed_data & mask > 0 for a 32-bit word held as its bits 30, 31 and its low 30 bits
packed_and_mask(packed_data, mask) ==
    \E b \in mask : \/ b \in packed_data.bits
                    \/ b < 30 /\ HasBit(packed_data.num, b)

\* Utexture.__unpack_packed_data raises
unpack_packed_data_raises(t, ver) ==
    /\ ~(VersionGE(ver, "4.24") \/ VersionEQ(ver, "ff7r"))
    /\ packed_and_mask(t.packed_data, PackedFlagMask)

\* Utexture.__unpack_packed_data
unpack_packed_data(t, ver) ==
    [t EXCEPT !.has_opt_data = IF VersionGE(ver, "4.24") \/ VersionEQ(ver, "ff7r")
                               THEN 30 \in t.packed_data.bits ELSE @,
              !.num_slices = t.packed_data.num]

\* Utexture.__update_packed_data
update_packed_data(t, ver) ==
    [t EXCEPT !.packed_data =
        IF VersionGE(ver, "4.24") \/ VersionEQ(ver, "ff7r")
        THEN [bits |-> (IF t.is_cube THEN {31} ELSE {}) \cup
                       (IF t.has_opt_data THEN {30} ELSE {}),
              num |-> t.num_slices]
        ELSE [bits |-> {}, num |-> t.num_slices]]

\* Utexture.remove_mipmaps raises (mipmaps[0] of an empty list)
remove_mipmaps_raises(t) == Len(t.mipmaps) = 0

\* Utexture.remove_mipmaps
remove_mipmaps(t) ==
    IF Len(t.mipmaps) <= 1 THEN t
    ELSE [t EXCEPT !.mipmaps =
            <<[t.mipmaps[1] EXCEPT !.data_resource.bulk_type = "UEXP"]>>]

\* the byte size get_dds takes from each mip for one slice
get_dds_bin_size(t, mip) ==
    IF ~is_compressed(t) THEN mip.width * mip.height * t.byte_per_pixel
    ELSE cail(mip.width, get_block_size(t)) * cail(mip.height, get_block_size(t))
         * t.byte_per_pixel

\* Utexture.get_dds raises: an unsupported format, or the mip of an empty mip
\* list named after the loops
get_dds_raises(t) ==
    \/ ~has_supported_format(t)
    \/ is_empty(t) /\ t.num_slices > 0

\* Utexture.get_dds
get_dds(t) ==
    LET size == get_max_size(t)
        header == DDSHeader_update(DDSHeader, size[1], size[2], get_depth(t),
                                   Len(t.mipmaps), t.dxgi_format, t.is_cube,
                                   get_array_size(t))
        n == Len(t.mipmaps)
        slice(i) == SumSeq([k \in 1..n |->
                       SliceLen(t.mipmaps[k].data,
                                get_dds_bin_size(t, t.mipmaps[k]) * (i - 1),
                                get_dds_bin_size(t, t.mipmaps[k]))])
    IN  DDS(header,
            [i \in 1..t.num_slices |-> slice(i)],
            [i \in 1..t.num_slices |-> <<t.mipmaps[n].width, t.mipmaps[n].height>>])

\* inject_dds_raises without the texture-type check
inject_dds_raises_no_type_check(t, d) ==
    \/ ~has_supported_format(t)
    \/ d.header.dxgi_format # t.dxgi_format
    \/ DDS_get_array_size(d) # get_array_size(t)

\* Utexture.inject_dds raises: the checks at its head
inject_dds_raises(t, d) ==
    \/ ~has_supported_format(t)
    \/ d.header.dxgi_format # t.dxgi_format
    \/ DDS_get_texture_type(d) # get_texture_type(t)
    \/ DDS_get_array_size(d) # get_array_size(t)

\* inject_in_ubulk with >= for > in the size comparison
inject_in_ubulk_ge(t, size, i, n) ==
    /\ t.has_ubulk
    /\ i < n
    /\ size[1] * size[2] >= get_max_uexp_size(t)[1] * get_max_uexp_size(t)[2]

\* inject_in_ubulk without the test for the last mip
inject_in_ubulk_last(t, size, i, n) ==
    /\ t.has_ubulk
    /\ size[1] * size[2] > get_max_uexp_size(t)[1] * get_max_uexp_size(t)[2]

\* the decision of inject_dds to keep mip i (of n) out of uexp
inject_in_ubulk(t, size, i, n) ==
    /\ t.has_ubulk
    /\ i < n
    /\ size[1] * size[2] > get_max_uexp_size(t)[1] * get_max_uexp_size(t)[2]

\* the mip list inject_dds builds from the slices of the DDS
inject_mipmaps(t, d) ==
    LET n == Len(d.mipmap_size_list)
        bin_size(i) == d.mipmap_size_list[i][1] * d.mipmap_size_list[i][2]
                       * t.byte_per_pixel
        offset(i) == SumSeq([k \in 1..(i - 1) |-> bin_size(k)])
        data(i) == SumSeq([k \in 1..Len(d.slice_bin_list) |->
                      SliceLen(d.slice_bin_list[k], offset(i), bin_size(i))])
    IN  [i \in 1..n |->
            Umipmap_update(data(i), d.mipmap_size_list[i], d.header.depth,
                           ~inject_in_ubulk(t, d.mipmap_size_list[i], i, n))]

\* inject_dds without the recount of the streamed mips
inject_dds_stale_flags(t, d, ver) ==
    LET t1 == [t EXCEPT !.first_mip_to_serialize = 0,
                        !.mipmaps = inject_mipmaps(t, d)]
        new_size == get_max_size(t1)
    IN  [t1 EXCEPT !.imported_width = new_size[1],
                   !.imported_height = new_size[2]]

\* Utexture.inject_dds, given that it does not raise
inject_dds(t, d, ver) ==
    LET t1 == [t EXCEPT !.first_mip_to_serialize = 0,
                        !.mipmaps = inject_mipmaps(t, d)]
        new_size == get_max_size(t1)
        nums == get_mipmap_num(t1)
    IN  [t1 EXCEPT !.imported_width = new_size[1],
                   !.imported_height = new_size[2],
                   !.has_ubulk = nums[2] > 0,
                   !.has_uptnl = nums[3] > 0,
                   !.has_opt_data = IF VersionEQ(ver, "ff7r") THEN nums[2] > 0 ELSE @]

\* Umipmap.serialize, reading: one mip record of the file, its payload taken
\* inline (uexp) or from the ubulk / uptnl stream (serialize_ubulk)
Umipmap_read(m, ver) ==
    LET dr == unpack_bulk_flags([DataResourceBase EXCEPT !.bulk_flags = m.bulk_flags,
                                                         !.data_size = m.data_size,
                                                         !.offset = m.offset], ver)
    IN  [width |-> m.width, height |-> m.height,
         depth |-> IF VersionGE(ver, "4.20") THEN m.depth ELSE 1,
         data |-> IF dr.bulk_type = "NONE" THEN 0 ELSE m.data_size,
         data_resource |-> dr]

\* the split of the ff7r tail mip: every uexp mip takes pixel_num * bpp * slices
\* bytes of uexp_optional_mip.data
ff7r_split_size(t, mip) == mip.width * mip.height * t.byte_per_pixel * t.num_slices

ff7r_split(t, tail) ==
    LET inUexp(i) == has_uexp_bulk(t.mipmaps[i]) \/ has_no_bulk(t.mipmaps[i])
        offset(i) == SumSeq([k \in 1..(i - 1) |->
                        IF inUexp(k) THEN ff7r_split_size(t, t.mipmaps[k]) ELSE 0])
    IN  [t EXCEPT !.mipmaps =
            [i \in 1..Len(t.mipmaps) |->
                IF inUexp(i)
                THEN [t.mipmaps[i] EXCEPT
                        !.data = SliceLen(tail, offset(i), ff7r_split_size(t, t.mipmaps[i]))]
                ELSE t.mipmaps[i]]]

ff7r_split_raises(t, tail) ==
    SumSeq([k \in 1..Len(t.mipmaps) |->
              IF has_uexp_bulk(t.mipmaps[k]) \/ has_no_bulk(t.mipmaps[k])
              THEN ff7r_split_size(t, t.mipmaps[k]) ELSE 0]) # tail

\* Utexture.serialize with a reading archive: the object read from file f
serialize_read(t, f, ver) ==
    LET t1 == [t EXCEPT !.imported_width = f.imported_width,
                        !.imported_height = f.imported_height,
                        !.packed_data = f.packed_data,
                        !.pixel_format = f.pixel_format]
        t2 == update_format(unpack_packed_data(t1, ver))
        t3 == [t2 EXCEPT !.first_mip_to_serialize = f.first_mip_to_serialize,
                         !.mipmaps = [i \in 1..Len(f.mipmaps) |->
                                         Umipmap_read(f.mipmaps[i], ver)]]
        nums == get_mipmap_num(t3)
        t4 == [t3 EXCEPT !.has_ubulk = nums[2] > 0, !.has_uptnl = nums[3] > 0,
                         !.loaded = TRUE]
    IN  IF VersionEQ(ver, "ff7r") /\ has_supported_format(t4)
        THEN ff7r_split(t4, f.tail) ELSE t4

\* Utexture.serialize with a reading archive raises
serialize_read_raises(t, f, ver) ==
    LET t4 == serialize_read(t, f, ver)
    IN  \/ unpack_packed_data_raises([t EXCEPT !.packed_data = f.packed_data], ver)
        \/ \E i \in 1..Len(f.mipmaps) : unpack_bulk_flags_raises(f.mipmaps[i].bulk_flags, ver)
        \/ VersionEQ(ver, "ff7r") /\ has_supported_format(t4) /\ ff7r_split_raises(t4, f.tail)
        \/ (t.is_3d \/ t.is_array) /\ Len(f.mipmaps) > 1

(***************************************************************************)
(* Writing: Utexture.serialize with a writing archive.  A file is the      *)
(* record of its fields; ar.tell() is the number of bytes written so far.  *)
(***************************************************************************)
\* String.write: a 4-byte length, the text, one terminator
String_size(val) == 4 + Len(val) + 1

\* the bytes LegacyDataResource.serialize moves up to its offset field:
\* bulk_flags, then data_size twice as Int32 or Int64
data_resource_head_size(has_64bit_size) == 4 + 2 * (IF has_64bit_size THEN 8 ELSE 4)

\* the offset LegacyDataResource.serialize gives an inline payload of a mip
\* that starts at pos: ar.args[0] + ar.tell() + 8, the place of its first byte
\* in the package
inline_offset(pos, has_64bit_size, uasset_size, ver) ==
    uasset_size + pos + (IF VersionLE(ver, "4.27") THEN 4 ELSE 0)
    + data_resource_head_size(has_64bit_size) + 8

\* the bytes of one mip: bCooked up to 4.27, the data resource, the payload of
\* a uexp mip, width and height, depth from 4.20
Umipmap_size(has_64bit_size, inline, ver) ==
    (IF VersionLE(ver, "4.27") THEN 4 ELSE 0)
    + data_resource_head_size(has_64bit_size) + 8
    + inline
    + 8 + (IF VersionGE(ver, "4.20") THEN 4 ELSE 0)

\* ar.tell() at the marks of __serialize_uexp: where skip_offset is, where the
\* ff7r tail mip starts, where each mip starts (has64 and inline give the
\* width of the sizes and the inline bytes of each), where the object ends
uexp_positions(props, pixel_format, opt, tail64, tail, has64, inline, is_light_map, ver) ==
    LET skip_offset_location == props + (IF VersionGE(ver, "5.3") THEN 4 ELSE 0) + 8
        p_tail == skip_offset_location + 4
                  + (IF VersionGE(ver, "4.20") THEN 4 ELSE 0)
                  + (IF VersionGE(ver, "5.0") THEN 16 ELSE 0)
                  + 12 + String_size(pixel_format)
                  + (IF opt THEN 12 ELSE 0)
                  + 8
        p_mips == IF VersionEQ(ver, "ff7r")
                  THEN p_tail + Umipmap_size(tail64, tail, ver) + 8
                  ELSE p_tail
        p_mip == [i \in 1..(Len(inline) + 1) |->
                    p_mips + SumSeq([k \in 1..(i - 1) |->
                                       Umipmap_size(has64[k], inline[k], ver)])]
        p_skip == p_mip[Len(inline) + 1] + (IF VersionGE(ver, "4.23") THEN 4 ELSE 0)
    IN  [skip_offset_location |-> skip_offset_location,
         p_tail |-> p_tail,
         p_mip |-> p_mip,
         p_skip |-> p_skip,
         uexp_size |-> p_skip + 8 + (IF is_light_map THEN 4 ELSE 0)]

\* Umipmap.serialize, writing at offset pos of the uexp: the fields written.
\* LegacyDataResource.serialize keeps bulk_flags in valid mode and sets the
\* offset of an inline payload
Umipmap_write(mip, pos, uasset_size, ver, valid) ==
    LET dr == IF valid THEN mip.data_resource
              ELSE update_bulk_flags(mip.data_resource, ver)
    IN  [bulk_flags |-> dr.bulk_flags,
         data_size |-> dr.data_size,
         offset |-> IF dr.bulk_type \in {"UEXP", "NONE"}
                    THEN inline_offset(pos, dr.has_64bit_size, uasset_size, ver)
                    ELSE dr.offset,
         data |-> IF dr.bulk_type = "UEXP" THEN mip.data ELSE 0,
         width |-> mip.width, height |-> mip.height,
         depth |-> IF VersionGE(ver, "4.20") THEN mip.depth ELSE 1]

\* the mips as __serialize_uexp leaves them before it writes the mip array:
\* ff7r strips every inline mip of its payload, and every streamed mip gets its
\* offset in the ubulk or uptnl file
write_prepare_mipmaps(t, ver) ==
    LET strip(mip) == IF VersionEQ(ver, "ff7r") /\ (has_uexp_bulk(mip) \/ has_no_bulk(mip))
                      THEN [mip EXCEPT !.data_resource.bulk_type = "NONE",
                                       !.data_resource.data_size = 0]
                      ELSE mip
        m1 == [i \in 1..Len(t.mipmaps) |-> strip(t.mipmaps[i])]
        before(i, type) == SumSeq([k \in 1..(i - 1) |->
                              IF m1[k].data_resource.bulk_type = type
                              THEN m1[k].data ELSE 0])
    IN  [i \in 1..Len(m1) |->
            IF has_ubulk_bulk(m1[i]) THEN [m1[i] EXCEPT !.data_resource.offset = before(i, "UBULK")]
            ELSE IF has_uptnl_bulk(m1[i]) THEN [m1[i] EXCEPT !.data_resource.offset = before(i, "UPTNL")]
            ELSE m1[i]]

\* uexp_optional_mip.update(uexp_bulk, size, 1, True) of ff7r: the payloads of
\* the inline mips, joined, under the flags the tail mip was read with
write_optional_mip(t, tail_flags) ==
    LET ff7r == VersionInfo("ff7r")
        uexp_bulk == SumSeq([k \in 1..Len(t.mipmaps) |->
                        IF has_uexp_bulk(t.mipmaps[k]) \/ has_no_bulk(t.mipmaps[k])
                        THEN t.mipmaps[k].data ELSE 0])
        size == get_max_uexp_size([t EXCEPT !.mipmaps = write_prepare_mipmaps(t, ff7r)])
        dr == unpack_bulk_flags([DataResourceBase EXCEPT !.bulk_flags = tail_flags], ff7r)
    IN  [width |-> size[1], height |-> size[2], depth |-> 1, data |-> uexp_bulk,
         data_resource |-> data_resource_update(dr, uexp_bulk, TRUE)]

\* Utexture.rewrite_offset_data on the mips written: after 4.15 the offset of a
\* streamed mip that has_wrong_offset is counted back from the end of the uexp
rewrite_offset_data(written, mips, uasset_size, uexp_size, ver) ==
    IF VersionLE(ver, "4.15") THEN written
    ELSE [i \in 1..Len(written) |->
            IF /\ has_ubulk_bulk(mips[i]) \/ has_uptnl_bulk(mips[i])
               /\ mips[i].data_resource.has_wrong_offset
            THEN [written[i] EXCEPT !.offset = -uasset_size - uexp_size + @]
            ELSE written[i]]

\* the files Utexture.serialize writes and rewrite_offset_data patches, given
\* the mips and the ff7r tail mip as __serialize_uexp prepared them and the
\* positions pos of the fields in the uexp
write_files(t, kept, ver, valid, mips, tail, pos) ==
    [uasset_size |-> kept.uasset_size,
     export_size |-> pos.uexp_size,
     props |-> kept.props,
     pixel_format_name_id |-> kept.pixel_format_name_id,
     skip_offset |-> IF VersionGE(ver, "5.0")
                     THEN pos.p_skip - pos.skip_offset_location
                     ELSE pos.p_skip + kept.uasset_size,
     imported_width |-> t.imported_width,
     imported_height |-> t.imported_height,
     packed_data |-> update_packed_data(t, ver).packed_data,
     pixel_format |-> t.pixel_format,
     num_mips_in_tail |-> IF VersionEQ(ver, "ff7r") /\ t.has_opt_data
                          THEN get_mipmap_num(t)[2] + t.first_mip_to_serialize ELSE 0,
     first_mip_to_serialize |-> t.first_mip_to_serialize,
     mip_count |-> Len(t.mipmaps),
     tail_mip |-> IF VersionEQ(ver, "ff7r")
                  THEN Umipmap_write(tail, pos.p_tail, kept.uasset_size, ver, valid)
                  ELSE kept.tail_mip,
     tail |-> IF VersionEQ(ver, "ff7r") THEN tail.data ELSE 0,
     num_slices |-> IF VersionEQ(ver, "ff7r") THEN t.num_slices ELSE 0,
     uexp_map_num |-> IF VersionEQ(ver, "ff7r") THEN get_mipmap_num(t)[1] ELSE 0,
     mipmaps |-> rewrite_offset_data(
                     [i \in 1..Len(mips) |->
                         Umipmap_write(mips[i], pos.p_mip[i], kept.uasset_size, ver, valid)],
                     mips, kept.uasset_size, pos.uexp_size, ver),
     none_name_id |-> kept.none_name_id,
     light_map_flags |-> IF t.is_light_map THEN kept.light_map_flags ELSE 0,
     has_ubulk_file |-> t.has_ubulk,
     ubulk |-> SumSeq([i \in 1..Len(mips) |->
                         IF has_ubulk_bulk(mips[i]) THEN mips[i].data ELSE 0]),
     has_uptnl_file |-> t.has_uptnl,
     uptnl |-> SumSeq([i \in 1..Len(mips) |->
                         IF has_uptnl_bulk(mips[i]) THEN mips[i].data ELSE 0])]

\* __serialize_uexp, writing, from the mips and the tail mip it prepared
write_uexp(t, kept, ver, valid, mips, tail) ==
    write_files(t, kept, ver, valid, mips, tail,
        uexp_positions(kept.props, t.pixel_format,
            VersionEQ(ver, "ff7r") /\ t.has_opt_data,
            tail.data_resource.has_64bit_size, tail.data,
            [i \in 1..Len(mips) |-> mips[i].data_resource.has_64bit_size],
            [i \in 1..Len(mips) |-> IF has_uexp_bulk(mips[i]) THEN mips[i].data ELSE 0],
            t.is_light_map, ver))

\* Uasset.save(file, valid) of a package with one texture export: the files
\* written.  kept is what the objects keep of the files they were read from:
\* the property block, the name ids, the flags of the tail mip, the uasset
serialize_write(t, kept, ver, valid) ==
    write_uexp(t, kept, ver, valid,
        write_prepare_mipmaps(t, ver),
        write_optional_mip(t, kept.tail_mip.bulk_flags))

\* the texture object after Uasset.save wrote the mip records written
serialize_write_tex(t, written, ver) ==
    [update_packed_data(t, ver) EXCEPT
        !.mipmaps = [i \in 1..Len(written) |->
                        [write_prepare_mipmaps(t, ver)[i] EXCEPT
                            !.data_resource.offset = written[i].offset,
                            !.data_resource.bulk_flags = written[i].bulk_flags]]]

(***************************************************************************)
(* The inputs of the model: versions, texture classes, cooked texture      *)
(* records as the engine lays them out, and DDS objects as DDS.load makes  *)
(* them.                                                                   *)
(***************************************************************************)
MaxArraySize == 2

MaxDepth == 2

Versions == {"4.18", "ff7r", "4.27"}

Classes == DOMAIN ClassNameParts

PixelFormats == {"PF_BC7", "PF_B8G8R8A8", "PF_ETC2_RGBA"}

\* <<width, height, number of mips, mips dropped by the cook>> of the mip
\* chains of the sample textures
SampleChains ==
    {<<4, 4, 3, 0>>, <<16, 16, 1, 1>>, <<0, 0, 0, 0>>, <<2048, 2048, 3, 0>>, <<8, 4, 2, 1>>}

\* the mip sizes of a chain: each mip half the one before, never below 1
MipChain(c) ==
    [i \in 1..c[3] |-> <<Max(1, c[1] \div Pow2(i - 1)), Max(1, c[2] \div Pow2(i - 1))>>]

\* NumSlices as the engine cooks it: the depth of a volume texture, 6 per cube,
\* the number of elements of an array, else 1
SampleNumSlices(t) ==
    IF t.is_3d THEN 1..MaxDepth
    ELSE IF t.is_array THEN {n * (IF t.is_cube THEN 6 ELSE 1) : n \in 1..MaxArraySize}
    ELSE IF t.is_cube THEN {6}
    ELSE {1}

\* the bytes of one cooked mip
SampleDataSize(pf, size, num_slices) ==
    IF pf \notin DOMAIN PF_TO_DXGI THEN size[1] * size[2] * num_slices
    ELSE LET dxgi == PF_TO_DXGI[pf]
             bs == dxgi_get_block_size(dxgi)
         IN  IF dxgi_is_compressed(dxgi)
             THEN cail(size[1], bs) * cail(size[2], bs) * DXGI_BYTE_PER_PIXEL[dxgi] * num_slices
             ELSE size[1] * size[2] * DXGI_BYTE_PER_PIXEL[dxgi] * num_slices

\* a cooked texture record: the first nb mips are streamed (ubulk, the first of
\* them in uptnl when opt), the others are inline
SampleFile(t, ver, pf, c, nb, opt, num_slices) ==
    LET chain == MipChain(c)
        first == c[4]
        bulk_type(i) == IF i > nb THEN (IF VersionEQ(ver, "ff7r") THEN "NONE" ELSE "UEXP")
                        ELSE IF opt /\ i = 1 THEN "UPTNL" ELSE "UBULK"
        tail_size(i) == IF pf \in DOMAIN PF_TO_DXGI
                        THEN chain[i][1] * chain[i][2]
                             * DXGI_BYTE_PER_PIXEL[PF_TO_DXGI[pf]] * num_slices
                        ELSE SampleDataSize(pf, chain[i], num_slices)
        packed == update_packed_data([t EXCEPT !.num_slices = num_slices,
                                               !.has_opt_data = VersionEQ(ver, "ff7r") /\ nb > 0],
                                     ver).packed_data
    IN  [pixel_format |-> pf,
         packed_data |-> packed,
         imported_width |-> c[1] * Pow2(first),
         imported_height |-> c[2] * Pow2(first),
         first_mip_to_serialize |-> first,
         tail |-> IF VersionEQ(ver, "ff7r")
                  THEN SumSeq([i \in 1..Len(chain) |-> IF i > nb THEN tail_size(i) ELSE 0])
                  ELSE 0,
         mipmaps |-> [i \in 1..Len(chain) |->
            [bulk_flags |-> update_bulk_flags(
                               [DataResourceBase EXCEPT !.bulk_type = bulk_type(i)],
                               ver).bulk_flags,
             data_size |-> IF bulk_type(i) = "NONE" THEN 0
                           ELSE SampleDataSize(pf, chain[i], num_slices),
             offset |-> 0,
             width |-> chain[i][1], height |-> chain[i][2],
             depth |-> IF t.is_3d THEN num_slices ELSE 1]]]

SampleFiles(t, ver) ==
    UNION {{SampleFile(t, ver, pf, c, nb, opt, ns) :
               pf \in PixelFormats, ns \in SampleNumSlices(t),
               nb \in {n \in 0..2 : n = 0 \/ n < c[3]},
               opt \in BOOLEAN} : c \in SampleChains}

\* <<width, height, mip count, depth, is_cube, array_size>> of the sample DDS files
SampleDDSShapes ==
    {<<2048, 2048, 12, 1, FALSE, 1>>, <<16, 16, 3, 1, FALSE, 1>>,
     <<8, 8, 1, 1, FALSE, 1>>, <<16, 16, 3, 1, TRUE, 1>>}
    \cup {<<16, 16, 3, d, FALSE, 1>> : d \in 2..MaxDepth}
    \cup {<<8, 8, 1, d, FALSE, 1>> : d \in 2..MaxDepth}
    \cup {<<16, 16, 3, 1, FALSE, n>> : n \in 2..(MaxArraySize + 1)}
    \cup {<<8, 8, 1, 1, TRUE, n>> : n \in 2..MaxArraySize}

\* the DDS object DDS.load makes of a file with this header
LoadedDDS(h) ==
    DDS(h, [i \in 1..DDSHeader_get_num_slices(h) |-> get_slice_size(h)], get_size_list(h))

SampleDDS ==
    {LoadedDDS(DDSHeader_update(DDSHeader, s[1], s[2], s[4], s[3], f, s[5], s[6])) :
        s \in SampleDDSShapes, f \in {"BC7_UNORM", "B8G8R8A8_UNORM"}}

(***************************************************************************)
(* The state machine: a texture object is constructed, read from its       *)
(* package, then exported, injected into and stripped of its mips.         *)
(***************************************************************************)
Init ==
    /\ version \in {VersionInfo(v) : v \in Versions}
    /\ tex \in {Utexture_init(c) : c \in Classes}
    /\ op = "init"
    /\ result = "ok"
    /\ arg = <<>>
    /\ dds = <<>>
    /\ file = <<>>
    /\ saved = <<>>

\* Utexture.serialize(uexp_io) with a reading archive
Load ==
    /\ ~tex.loaded
    /\ op = "init"
    /\ \E f \in SampleFiles(tex, version) :
          IF serialize_read_raises(tex, f, version)
          THEN /\ result' = "error"
               /\ tex' = tex
          ELSE /\ result' = "ok"
               /\ tex' = serialize_read(tex, f, version)
    /\ op' = "load"
    /\ UNCHANGED <<version, arg, dds, file, saved>>

\* Utexture.remove_mipmaps()
RemoveMipmaps ==
    /\ tex.loaded
    /\ IF remove_mipmaps_raises(tex)
       THEN /\ result' = "error"
            /\ tex' = tex
       ELSE /\ result' = "ok"
            /\ tex' = remove_mipmaps(tex)
    /\ op' = "remove_mipmaps"
    /\ dds' = <<>>
    /\ UNCHANGED <<version, arg, file, saved>>

\* Utexture.get_dds()
GetDDS ==
    /\ tex.loaded
    /\ IF get_dds_raises(tex)
       THEN /\ result' = "error"
            /\ dds' = <<>>
       ELSE /\ result' = "ok"
            /\ dds' = <<get_dds(tex)>>
    /\ op' = "get_dds"
    /\ UNCHANGED <<version, tex, arg, file, saved>>

\* Utexture.inject_dds(d), d a loaded DDS file or the DDS just exported
InjectDDS ==
    /\ tex.loaded
    /\ \E d \in SampleDDS \cup {dds[i] : i \in 1..Len(dds)} :
          /\ arg' = <<d>>
          /\ IF inject_dds_raises(tex, d)
             THEN /\ result' = "error"
                  /\ tex' = tex
             ELSE /\ result' = "ok"
                  /\ tex' = inject_dds(tex, d, version)
    /\ op' = "inject_dds"
    /\ dds' = <<>>
    /\ UNCHANGED <<version, file, saved>>

Next ==
    \/ Load
    \/ RemoveMipmaps
    \/ GetDDS
    \/ InjectDDS

Spec == Init /\ [][Next]_vars

(***************************************************************************)
(* The DDS codec on its own: a DDS file is loaded and saved again          *)
(* (main.py, valid mode on a .dds file).                                   *)
(***************************************************************************)
MaxMipNum == 2

\* the pixel format blocks of the sample DDS files
SamplePixelFormats ==
    {DDSPixelFormat,
     [DDSPixelFormat EXCEPT !.fourCC = "DXT5"],
     [DDSPixelFormat EXCEPT !.fourCC = "ATC"],
     [DDSPixelFormat EXCEPT !.fourCC = "ATC "],
     [DDSPixelFormat EXCEPT !.fourCC = "ETC1"],
     [DDSPixelFormat EXCEPT !.fourCC = "", !.flags = 64, !.bit_count = 32,
                            !.bit_mask = "B8G8R8A8"],
     [DDSPixelFormat EXCEPT !.fourCC = "", !.flags = 524288, !.bit_count = 16,
                            !.bit_mask = "R8G8"],
     [DDSPixelFormat EXCEPT !.fourCC = "", !.flags = 64, !.bit_count = 24,
                            !.bit_mask = "R8G8B8"]}

\* the fixed headers of the sample DDS files
SampleHeads ==
    {[magic |-> m[1], head_size |-> m[2], flags |-> 4103, height |-> wh, width |-> wh,
      pitch_or_linear_size |-> wh * wh, depth |-> d, mipmap_num |-> n,
      reserved |-> r[1], tool_name |-> r[2], pixel_format |-> pf,
      caps |-> r[3], caps2 |-> c2] :
        m \in {<<"DDS ", 124>>, <<"DDSX", 124>>, <<"DDS ", 120>>},
        wh \in {0, 8}, d \in 0..MaxDepth, n \in 0..MaxMipNum,
        r \in {<<0, "UEDT", 4096>>, <<1, "NVTT", 4198408>>},
        pf \in SamplePixelFormats, c2 \in {0, 65024, 2097152}}

\* the DX10 extensions of the sample DDS files
SampleDX10 ==
    {[dxgi_format |-> f, resource_dimension |-> rd, misc_flags |-> 0,
      array_size |-> n, misc_flags2 |-> 0] :
        f \in {"BC7_UNORM", "B8G8R8A8_UNORM", "BEYOND_DX10"}, rd \in {2, 3},
        n \in 0..MaxArraySize}

\* a file of a whole header, with the number of data bytes its header asks
\* for, one byte more, or none
WholeFiles(head, dx10, dx10_len) ==
    LET f == [head |-> head, head_len |-> 128, dx10 |-> dx10, dx10_len |-> dx10_len,
              data |-> 0]
        h == DDSHeader_read(f)
        size == IF DDSHeader_read_raises(f) THEN 0
                ELSE DDSHeader_get_num_slices(h) * get_slice_size(h)
    IN  {[f EXCEPT !.data = n] : n \in {0, size, size + 1}}

\* the sample DDS files: whole headers, headers with a cut DX10 extension,
\* and files that end inside the fixed header
SampleDDSFiles ==
    UNION {IF is_dx10(head.pixel_format)
           THEN UNION {WholeFiles(head, dx10, 20) : dx10 \in SampleDX10}
                \cup {[head |-> head, head_len |-> 128,
                       dx10 |-> [DX10Header EXCEPT !.dxgi_format = dx10.dxgi_format],
                       dx10_len |-> 4, data |-> 0] : dx10 \in SampleDX10}
           ELSE WholeFiles(head, DX10Header, 0) : head \in SampleHeads}
    \cup {[head |-> [k \in DOMAIN HeaderFieldEnd |->
                        IF HeaderFieldEnd[k] <= cut THEN head[k]
                        ELSE IF k = "pixel_format"
                             THEN [size |-> 0, flags |-> 0, fourCC |-> "", bit_count |-> 0,
                                   bit_mask |-> "0,0,0,0"]
                             ELSE IF k \in {"magic", "tool_name"} THEN "" ELSE 0],
           head_len |-> cut, dx10 |-> DX10Header, dx10_len |-> 0, data |-> 0] :
             head \in SampleHeads, cut \in {8, 32}}

InitDDS ==
    /\ version = VersionInfo("4.27")
    /\ tex = Utexture_init("Texture2D")
    /\ op = "init"
    /\ result = "ok"
    /\ arg = <<>>
    /\ dds = <<>>
    /\ file \in SampleDDSFiles
    /\ saved = <<>>

\* DDS.load(file)
DDSLoad ==
    /\ op = "init"
    /\ IF DDS_load_raises(file)
       THEN /\ result' = "error"
            /\ dds' = <<>>
       ELSE /\ result' = "ok"
            /\ dds' = <<DDS_load(file)>>
    /\ op' = "dds_load"
    /\ UNCHANGED <<version, tex, arg, file, saved>>

\* DDS.save(new_file) of the loaded object
DDSSave ==
    /\ op = "dds_load"
    /\ result = "ok"
    /\ saved' = <<DDS_save(dds[1])>>
    /\ op' = "dds_save"
    /\ UNCHANGED <<version, tex, result, arg, dds, file>>

\* dds.get_disassembled_dds_list() of the loaded object
DDSDisassemble ==
    /\ op = "dds_load"
    /\ result = "ok"
    /\ dds' = DDS_get_disassembled_dds_list(dds[1])
    /\ arg' = dds
    /\ op' = "dds_disassemble"
    /\ UNCHANGED <<version, tex, result, file, saved>>

\* DDS.assemble(dds_list, is_array) of the disassembled list
DDSAssemble ==
    /\ op = "dds_disassemble"
    /\ \E is_array \in BOOLEAN :
          IF DDS_assemble_raises(dds)
          THEN /\ result' = "error"
               /\ dds' = <<>>
          ELSE /\ result' = "ok"
               /\ dds' = <<DDS_assemble(dds, is_array)>>
    /\ arg' = dds
    /\ op' = "dds_assemble"
    /\ UNCHANGED <<version, tex, file, saved>>

NextDDS ==
    \/ DDSLoad
    \/ DDSSave
    \/ DDSDisassemble
    \/ DDSAssemble

SpecDDS == InitDDS /\ [][NextDDS]_vars

(***************************************************************************)
(* Valid mode on a package (main.py): a cooked package with one texture    *)
(* export is loaded and saved unmodified with valid=True.                  *)
(***************************************************************************)
ValidVersions == {"4.18", "ff7r", "4.27", "5.0"}

\* <<uasset size, property block size, light map flags>> of the sample packages
SamplePackageShapes == {<<700, 24, 0>>, <<1024, 90, 3>>}

\* the cooked package around the texture record f: the offsets as the engine
\* lays them out, the ids, and the ubulk and uptnl files
CookedPackage(t, ver, f, shape) ==
    LET uasset_size == shape[1]
        flags(i) == f.mipmaps[i].bulk_flags
        n == Len(f.mipmaps)
        inline(i) == HasBit(flags(i), BULKDATA_ForceInlinePayload)
        unused(i) == ~inline(i) /\ HasBit(flags(i), BULKDATA_Unused)
        optional(i) == ~inline(i) /\ ~unused(i) /\ HasBit(flags(i), BULKDATA_OptionalPayload)
        streamed(i) == ~inline(i) /\ ~unused(i) /\ ~optional(i)
        opt == VersionEQ(ver, "ff7r") /\ 30 \in f.packed_data.bits
        first_inline == {i \in 1..n : inline(i) \/ unused(i)}
        tail_at == IF first_inline = {} THEN n
                   ELSE CHOOSE i \in first_inline : \A j \in first_inline : i <= j
        pos == uexp_positions(shape[2], f.pixel_format, opt, FALSE, f.tail,
                   [i \in 1..n |-> FALSE],
                   [i \in 1..n |-> IF inline(i) THEN f.mipmaps[i].data_size ELSE 0],
                   t.is_light_map, ver)
        in_file(i, same(_)) == SumSeq([k \in 1..(i - 1) |->
                                  IF same(k) THEN f.mipmaps[k].data_size ELSE 0])
        fixup == IF VersionEQ(ver, "ff7r") \/ VersionGE(ver, "4.26") \/ VersionLE(ver, "4.15")
                 THEN 0 ELSE -uasset_size - pos.uexp_size
    IN  [uasset_size |-> uasset_size,
         export_size |-> pos.uexp_size,
         props |-> shape[2],
         pixel_format_name_id |-> 5,
         skip_offset |-> IF VersionGE(ver, "5.0")
                         THEN pos.p_skip - pos.skip_offset_location
                         ELSE pos.p_skip + uasset_size,
         imported_width |-> f.imported_width,
         imported_height |-> f.imported_height,
         packed_data |-> f.packed_data,
         pixel_format |-> f.pixel_format,
         num_mips_in_tail |-> IF opt
                              THEN Cardinality({i \in 1..n : streamed(i)})
                                   + f.first_mip_to_serialize
                              ELSE 0,
         first_mip_to_serialize |-> f.first_mip_to_serialize,
         mip_count |-> n,
         tail_mip |-> IF VersionEQ(ver, "ff7r")
                      THEN [bulk_flags |-> Pow2(BULKDATA_ForceInlinePayload),
                            data_size |-> f.tail,
                            offset |-> inline_offset(pos.p_tail, FALSE, uasset_size, ver),
                            data |-> f.tail,
                            width |-> IF n = 0 THEN 0 ELSE f.mipmaps[tail_at].width,
                            height |-> IF n = 0 THEN 0 ELSE f.mipmaps[tail_at].height,
                            depth |-> 1]
                      ELSE [bulk_flags |-> 0],
         tail |-> f.tail,
         num_slices |-> IF VersionEQ(ver, "ff7r") THEN f.packed_data.num ELSE 0,
         uexp_map_num |-> IF VersionEQ(ver, "ff7r") THEN Cardinality(first_inline) ELSE 0,
         mipmaps |-> [i \in 1..n |->
            [bulk_flags |-> flags(i),
             data_size |-> f.mipmaps[i].data_size,
             offset |-> IF inline(i) \/ unused(i)
                        THEN inline_offset(pos.p_mip[i], FALSE, uasset_size, ver)
                        ELSE IF optional(i) THEN in_file(i, optional) + fixup
                        ELSE in_file(i, streamed) + fixup,
             data |-> IF inline(i) THEN f.mipmaps[i].data_size ELSE 0,
             width |-> f.mipmaps[i].width, height |-> f.mipmaps[i].height,
             depth |-> IF VersionGE(ver, "4.20") THEN f.mipmaps[i].depth ELSE 1]],
         none_name_id |-> 2,
         light_map_flags |-> IF t.is_light_map THEN shape[3] ELSE 0,
         has_ubulk_file |-> \E i \in 1..n : streamed(i),
         ubulk |-> in_file(n + 1, streamed),
         has_uptnl_file |-> \E i \in 1..n : optional(i),
         uptnl |-> in_file(n + 1, optional)]

SamplePackages(t, ver) ==
    {CookedPackage(t, ver, f, shape) : f \in SampleFiles(t, ver), shape \in SamplePackageShapes}

InitValid ==
    /\ version \in {VersionInfo(v) : v \in ValidVersions}
    /\ tex \in {Utexture_init(c) : c \in Classes}
    /\ file \in SamplePackages(tex, version)
    /\ op = "init"
    /\ result = "ok"
    /\ arg = <<>>
    /\ dds = <<>>
    /\ saved = <<>>

\* Uasset(src_file, version): the texture export is read from the package
LoadPackage ==
    /\ op = "init"
    /\ IF serialize_read_raises(tex, file, version)
       THEN /\ result' = "error"
            /\ tex' = tex
       ELSE /\ result' = "ok"
            /\ tex' = serialize_read(tex, file, version)
    /\ op' = "load"
    /\ UNCHANGED <<version, arg, dds, file, saved>>

\* asset.save(new_file, valid=True)
SavePackage ==
    /\ op = "load"
    /\ result = "ok"
    /\ saved' = <<serialize_write(tex, file, version, TRUE)>>
    /\ tex' = serialize_write_tex(tex, saved'[1].mipmaps, version)
    /\ op' = "save"
    /\ UNCHANGED <<version, result, arg, dds, file>>

NextValid ==
    \/ LoadPackage
    \/ SavePackage

SpecValid == InitValid /\ [][NextValid]_vars

(***************************************************************************)
(* Changing the pixel format of a loaded texture (main.py: inject with     *)
(* force_uncompressed or an ASTC texture).                                 *)
(***************************************************************************)
\* generate_hash(name): the hash bytes of a name
generate_hash(name) == [hash_of |-> name]

\* Uasset.update_name_list, get_size: every name of the model is ASCII
name_get_size(string) == (Len(string) + 1) * 1

\* Uasset.update_name_list where the size in the header is left as it was
update_name_list_no_size(t, i, new_name, ver) ==
    [t EXCEPT !.name_list[i] = new_name,
              !.hash_list[i] = IF VersionGE(ver, "4.12") THEN generate_hash(new_name) ELSE @]

\* Uasset.update_name_list; i counts the names from 1
update_name_list(t, i, new_name, ver) ==
    [t EXCEPT !.name_list[i] = new_name,
              !.hash_list[i] = IF VersionGE(ver, "4.12") THEN generate_hash(new_name) ELSE @,
              !.uasset_size = @ + name_get_size(new_name) - name_get_size(t.name_list[i])]

\* Utexture.change_format
change_format(t, pixel_format, ver) ==
    update_name_list(update_format([t EXCEPT !.pixel_format = pixel_format]),
                     t.pixel_format_name_id, pixel_format, ver)

\* Utexture.to_uncompressed
to_uncompressed(t, ver) ==
    IF is_compressed(t)
    THEN change_format(t, PF_TO_UNCOMPRESSED[t.pixel_format], ver)
    ELSE t

\* io_util.write_str: the bytes a name takes in the name table of the file
write_str_size(string) == 4 + Len(string) + 1

\* the pixel formats of the sample textures: every supported one and one
\* that is not supported
FormatInputs == DOMAIN PF_TO_DXGI \cup {"PF_ETC2_RGBA"}

\* TotalHeaderSize of the sample packages
SampleUassetSizes == {700}

\* the name tables of the sample packages and the place of the pixel format
\* in them
SampleNameLists(pf) ==
    {<<<<"None", pf>>, 2>>, <<<<pf, "Texture2D", "None">>, 1>>}

\* a loaded texture: the fields a format change reads and writes
FormatTexture(pf, names, size) ==
    update_format([pixel_format |-> pf,
                   dxgi_format |-> "UNKNOWN",
                   byte_per_pixel |-> 0,
                   pixel_format_name_id |-> names[2],
                   name_list |-> names[1],
                   hash_list |-> [i \in 1..Len(names[1]) |-> generate_hash(names[1][i])],
                   uasset_size |-> size])

InitFormat ==
    /\ version \in {VersionInfo(v) : v \in Versions}
    /\ tex \in {FormatTexture(pf, names, size) :
                   pf \in FormatInputs, names \in UNION {SampleNameLists(q) : q \in FormatInputs},
                   size \in SampleUassetSizes}
    /\ tex.name_list[tex.pixel_format_name_id] = tex.pixel_format
    /\ op = "init"
    /\ result = "ok"
    /\ arg = <<>>
    /\ dds = <<>>
    /\ file = <<>>
    /\ saved = <<>>

\* tex.to_uncompressed()
ToUncompressed ==
    /\ tex' = to_uncompressed(tex, version)
    /\ arg' = <<tex>>
    /\ op' = "to_uncompressed"
    /\ UNCHANGED <<version, result, dds, file, saved>>

\* tex.change_format(pixel_format)
ChangeFormat ==
    /\ \E pixel_format \in FormatInputs : tex' = change_format(tex, pixel_format, version)
    /\ arg' = <<tex>>
    /\ op' = "change_format"
    /\ UNCHANGED <<version, result, dds, file, saved>>

NextFormat ==
    \/ ToUncompressed
    \/ ChangeFormat

SpecFormat == InitFormat /\ [][NextFormat]_vars

(***************************************************************************)
(* Utexture.__calculate_prop_size: the scan of the uexp stream for the     *)
(* strip flags, one read or seek of the archive per step.                  *)
(***************************************************************************)
MaxStreamLen == 9

\* start_offset + 1000: how far the scan goes before it gives up
ScanLimit == 1000

\* b"\x00\x01\x00\x01\x00\x00\x00": what follows the first 01 of the strip flags
MarkerTail == <<0, 1, 0, 1, 0, 0, 0>>

\* ar.read(size): the bytes from pos on, fewer than size at the end of the
\* stream
ar_read(stream, pos, size) ==
    SubSeq(stream, pos + 1, Min(Len(stream), pos + size))

\* the uexp streams: every byte string up to MaxStreamLen of the bytes 00 and 01
ByteStreams == UNION {[1..n -> {0, 1}] : n \in 0..MaxStreamLen}

InitScan ==
    /\ file \in ByteStreams
    /\ \E start_offset \in 0..Len(file) :
          arg = [pos |-> start_offset,
                 start_offset |-> start_offset,
                 err_offset |-> Min(Len(file) - 7, start_offset + ScanLimit)]
    /\ op = "read1"
    /\ result = "scanning"
    /\ version = VersionInfo("4.27")
    /\ tex = <<>>
    /\ dds = <<>>
    /\ saved = <<>>

\* while (ar.read(1) != b"\x01"): if (ar.tell() >= err_offset): raise
ScanReadOne ==
    /\ op = "read1"
    /\ LET b == ar_read(file, arg.pos, 1)
           tell == arg.pos + Len(b)
       IN  /\ arg' = [arg EXCEPT !.pos = tell]
           /\ IF b = <<1>>
              THEN /\ op' = "read7"
                   /\ result' = result
              ELSE IF tell >= arg.err_offset
              THEN /\ op' = "done"
                   /\ result' = "error"
              ELSE /\ op' = "read1"
                   /\ result' = result
    /\ UNCHANGED <<version, tex, dds, file, saved>>

\* if ar.read(7) == marker: break, else: ar.seek(-7, 1).  A seek to before the
\* start of the stream stops at 0 on a BytesIO and raises on a file.
ScanReadSeven ==
    /\ op = "read7"
    /\ LET b == ar_read(file, arg.pos, 7)
           tell == arg.pos + Len(b)
       IN  IF b = MarkerTail
           THEN /\ arg' = [arg EXCEPT !.pos = arg.start_offset]
                /\ op' = "done"
                /\ result' = tell - arg.start_offset
           ELSE \/ /\ arg' = [arg EXCEPT !.pos = Max(0, tell - 7)]
                   /\ op' = "read1"
                   /\ result' = result
                \/ /\ tell - 7 < 0
                   /\ arg' = [arg EXCEPT !.pos = tell]
                   /\ op' = "done"
                   /\ result' = "error"
    /\ UNCHANGED <<version, tex, dds, file, saved>>

NextScan ==
    \/ ScanReadOne
    \/ ScanReadSeven

SpecScan == InitScan /\ [][NextScan]_vars

\* the scan is one loop of one thread: it takes its next step as long as it
\* has one
SpecScanFair == SpecScan /\ WF_vars(NextScan)

(***************************************************************************)
(* unreal/archive.py: the typed reads and writes of an archive.  A stream  *)
(* is a sequence of bytes, a str the sequence of its code points.          *)
(***************************************************************************)
\* ArchiveBase.check_buffer_size raises
check_buffer_size_raises(stream, pos, size) == pos + size > Len(stream)

\* int.from_bytes(binary, "little", signed=False)
RECURSIVE from_bytes_unsigned(_)
from_bytes_unsigned(binary) ==
    IF Len(binary) = 0 THEN 0
    ELSE binary[1] + 256 * from_bytes_unsigned(Tail(binary))

\* int.from_bytes(binary, "little", signed=True), as IntBase.read calls it
\* with the bytes ar.read gave it, which may be fewer than cls.size
from_bytes_signed(binary) ==
    LET k == Len(binary)
    IN  IF k = 0 THEN 0
        ELSE from_bytes_unsigned(SubSeq(binary, 1, k - 1))
             + (IF binary[k] >= 128 THEN binary[k] - 256 ELSE binary[k])
               * (CASE k = 1 -> 1 [] k = 2 -> 256 [] k = 3 -> 65536 [] OTHER -> 16777216)

\* Int32.write: val.to_bytes(4, "little", signed=True)
Int32_to_bytes(val) ==
    LET low == val % 16777216
        high == (val - low) \div 16777216
    IN  <<low % 256, (low \div 256) % 256, low \div 65536, high % 256>>

\* bytes.decode("ascii") raises
ascii_decode_raises(binary) == \E i \in 1..Len(binary) : binary[i] >= 128

\* the 16-bit units of a byte string
utf16_units(binary) ==
    [i \in 1..(Len(binary) \div 2) |-> binary[2 * i - 1] + 256 * binary[2 * i]]

is_high_surrogate(u) == u >= 55296 /\ u <= 56319

is_low_surrogate(u) == u >= 56320 /\ u <= 57343

\* the code points of a sequence of 16-bit units; <<-1>> marks a unit that
\* cannot be decoded
RECURSIVE utf16_code_points(_)
utf16_code_points(units) ==
    IF Len(units) = 0 THEN <<>>
    ELSE IF is_high_surrogate(units[1])
    THEN IF Len(units) >= 2 /\ is_low_surrogate(units[2])
         THEN <<65536 + (units[1] - 55296) * 1024 + (units[2] - 56320)>>
              \o utf16_code_points(SubSeq(units, 3, Len(units)))
         ELSE <<-1>>
    ELSE IF is_low_surrogate(units[1]) THEN <<-1>>
    ELSE <<units[1]>> \o utf16_code_points(Tail(units))

\* bytes.decode("utf-16-le") raises: an odd number of bytes or a surrogate
\* without its pair
utf16_decode_raises(binary) ==
    \/ Len(binary) % 2 = 1
    \/ \E i \in 1..Len(utf16_code_points(utf16_units(binary))) :
          utf16_code_points(utf16_units(binary))[i] = -1

\* str.encode("utf-16-le")
RECURSIVE utf16_encode(_)
utf16_encode(val) ==
    IF Len(val) = 0 THEN <<>>
    ELSE (IF val[1] >= 65536
          THEN LET hi == 55296 + ((val[1] - 65536) \div 1024)
                   lo == 56320 + ((val[1] - 65536) % 1024)
               IN  <<hi % 256, hi \div 256, lo % 256, lo \div 256>>
          ELSE <<val[1] % 256, val[1] \div 256>>)
         \o utf16_encode(Tail(val))

\* str.isascii
isascii(val) == \A i \in 1..Len(val) : val[i] < 128

\* Buffer.read: <<raises, value, cursor>>
Buffer_read(stream, pos, size) ==
    IF check_buffer_size_raises(stream, pos, size)
    THEN <<TRUE, <<>>, pos>>
    ELSE <<FALSE, ar_read(stream, pos, size), pos + size>>

\* Bytes.read: <<raises, value, cursor>>
Bytes_read(stream, pos, size) ==
    <<FALSE, ar_read(stream, pos, size), pos + Len(ar_read(stream, pos, size))>>

\* Uint32Array.read: struct.unpack raises unless it is given 4 * size bytes
Uint32Array_read(stream, pos, size) ==
    IF Len(ar_read(stream, pos, 4 * size)) # 4 * size
    THEN <<TRUE, <<>>, pos + Len(ar_read(stream, pos, 4 * size))>>
    ELSE <<FALSE,
           [i \in 1..size |-> SubSeq(ar_read(stream, pos, 4 * size), 4 * i - 3, 4 * i)],
           pos + 4 * size>>

\* String.read after the length: num is not 0, body the bytes ar.read gave
String_read_body(num, utf16, body, pos) ==
    IF utf16
    THEN IF utf16_decode_raises(body)
         THEN <<TRUE, <<>>, pos + Len(body), FALSE>>
         ELSE <<FALSE, utf16_code_points(utf16_units(body)), pos + Len(body) + 2, FALSE>>
    ELSE IF ascii_decode_raises(body)
         THEN <<TRUE, <<>>, pos + Len(body), FALSE>>
         ELSE <<FALSE, body, pos + Len(body) + 1, FALSE>>

\* String.read with the length num read: <<raises, value, cursor, value is
\* None>>, the cursor after the Int32; the value of the length 0 is None
String_read_num(stream, pos, num) ==
    IF num = 0 THEN <<FALSE, <<>>, pos, TRUE>>
    ELSE IF num < 0
    THEN String_read_body(-num, TRUE, ar_read(stream, pos, (-num - 1) * 2), pos)
    ELSE String_read_body(num, FALSE, ar_read(stream, pos, num - 1), pos)

\* String.read
String_read(stream, pos) ==
    String_read_num(stream, pos + Len(ar_read(stream, pos, 4)),
                    from_bytes_signed(ar_read(stream, pos, 4)))

\* String.write: the bytes written
String_write(val) ==
    IF isascii(val)
    THEN Int32_to_bytes(Len(val) + 1) \o val \o <<0>>
    ELSE Int32_to_bytes(-(Len(val) + 1)) \o utf16_encode(val) \o <<0, 0>>

\* strings as the engine writes them: "ab", "", a hiragana letter, an emoji,
\* and the letter a as UTF-16; then the length 0
SampleEncodings ==
    {<<3, 0, 0, 0, 97, 98, 0>>,
     <<1, 0, 0, 0, 0>>,
     <<254, 255, 255, 255, 66, 48, 0, 0>>,
     <<253, 255, 255, 255, 61, 216, 0, 222, 0, 0>>,
     <<254, 255, 255, 255, 97, 0, 0, 0>>,
     <<0, 0, 0, 0>>}

\* what follows a string in the stream
SampleTrailer == <<2, 0, 0, 0>>

\* the streams: a sample string and what follows it, whole or cut short
SampleStreams ==
    UNION {{SubSeq(e \o SampleTrailer, 1, n) : n \in 0..Len(e \o SampleTrailer)} :
             e \in SampleEncodings}

\* the sizes the callers declare
SampleSizes == {0, 1, 2, 6}

InitArchive ==
    /\ file \in SampleStreams
    /\ arg = [pos |-> 0, start |-> 0, size |-> 0]
    /\ op = "init"
    /\ result = <<FALSE, <<>>, 0>>
    /\ saved = <<>>
    /\ version = VersionInfo("4.27")
    /\ tex = <<>>
    /\ dds = <<>>

\* ar << (Buffer, obj, "attr", size); arg keeps the cursor before the read
\* and the size that was declared
ReadBuffer ==
    /\ ~result[1]
    /\ \E size \in SampleSizes :
          /\ result' = Buffer_read(file, arg.pos, size)
          /\ arg' = [pos |-> result'[3], start |-> arg.pos, size |-> size]
    /\ op' = "Buffer"
    /\ UNCHANGED <<version, tex, dds, file, saved>>

\* ar << (Bytes, obj, "attr", size)
ReadBytes ==
    /\ ~result[1]
    /\ \E size \in SampleSizes :
          /\ result' = Bytes_read(file, arg.pos, size)
          /\ arg' = [pos |-> result'[3], start |-> arg.pos, size |-> size]
    /\ op' = "Bytes"
    /\ UNCHANGED <<version, tex, dds, file, saved>>

\* ar << (Uint32Array, obj, "attr", size)
ReadUint32Array ==
    /\ ~result[1]
    /\ \E size \in SampleSizes :
          /\ result' = Uint32Array_read(file, arg.pos, size)
          /\ arg' = [pos |-> result'[3], start |-> arg.pos, size |-> 4 * size]
    /\ op' = "Uint32Array"
    /\ UNCHANGED <<version, tex, dds, file, saved>>

\* ar << (String, obj, "attr"); the declared size is that of the length, the
\* body and the terminator
ReadString ==
    /\ ~result[1]
    /\ result' = String_read(file, arg.pos)
    /\ arg' = [pos |-> result'[3], start |-> arg.pos,
               size |-> LET num == from_bytes_signed(ar_read(file, arg.pos, 4))
                        IN  4 + (IF num < 0 THEN -num * 2 ELSE num)]
    /\ op' = "String"
    /\ UNCHANGED <<version, tex, dds, file, saved>>

\* String.write of the value just read, to a new archive; len(None) raises
WriteString ==
    /\ op = "String"
    /\ ~result[1]
    /\ ~result[4]
    /\ saved' = <<String_write(result[2])>>
    /\ op' = "String_write"
    /\ UNCHANGED <<version, tex, result, arg, dds, file>>

NextArchive ==
    \/ ReadBuffer
    \/ ReadBytes
    \/ ReadUint32Array
    \/ ReadString
    \/ WriteString

SpecArchive == InitArchive /\ [][NextArchive]_vars

(***************************************************************************)
(* unreal/version.py: a VersionInfo is made, copied and compared with      *)
(* version strings, as every version test of the codec does.               *)
(***************************************************************************)
\* the version strings: those of main.py and of the tests, and some with a
\* component of three digits
VersionStrings == DOMAIN SplitVersion

\* the six comparisons of v with the string s
Comparisons(v, s) ==
    [lt |-> VersionLT(v, s), le |-> VersionLE(v, s), gt |-> VersionGT(v, s),
     ge |-> VersionGE(v, s), eq |-> VersionEQ(v, s), ne |-> VersionNE(v, s)]

InitVersion ==
    /\ version \in {VersionInfo(v) : v \in VersionStrings \cup {"ff7r", "borderlands3"}}
    /\ op = "init"
    /\ result = "ok"
    /\ arg = <<>>
    /\ tex = <<>>
    /\ dds = <<>>
    /\ file = <<>>
    /\ saved = <<>>

\* ver < s, ver <= s, ver > s, ver >= s, ver == s, ver != s
VersionCompare ==
    /\ \E s \in VersionStrings :
          /\ arg' = <<s>>
          /\ result' = Comparisons(version, s)
    /\ op' = "compare"
    /\ UNCHANGED <<version, tex, dds, file, saved>>

\* ver == s, ver != s for the name of a fork
VersionEquals ==
    /\ \E s \in {"ff7r", "borderlands3"} :
          /\ arg' = <<s>>
          /\ result' = [eq |-> VersionEQ(version, s), ne |-> VersionNE(version, s)]
    /\ op' = "equals"
    /\ UNCHANGED <<version, tex, dds, file, saved>>

\* ver.copy()
VersionCopy ==
    /\ version' = VersionInfo_copy(version)
    /\ arg' = <<version>>
    /\ op' = "copy"
    /\ result' = "ok"
    /\ UNCHANGED <<tex, dds, file, saved>>

NextVersion ==
    \/ VersionCompare
    \/ VersionEquals
    \/ VersionCopy

SpecVersion == InitVersion /\ [][NextVersion]_vars

(***************************************************************************)
(* unreal/city_hash.py.  A Python int that is not negative is the sequence *)
(* of its bytes, the lowest first, as long as the int needs: nothing keeps *)
(* it in 64 bits but the masks of the code.                                *)
(***************************************************************************)
\* the bytes of f, all of them computed
bytes_of(f) == f \o <<>>

\* the byte i of an int, 0 beyond its length
byte_at(a, i) == IF i >= 1 /\ i <= Len(a) THEN a[i] ELSE 0

\* a small int as an int of the model
RECURSIVE from_int(_)
from_int(n) == IF n = 0 THEN <<>> ELSE <<n % 256>> \o from_int(n \div 256)

\* the carry into the byte i of a + b: a byte below overflows and every byte
\* between it and i passes the carry on
add_carry(a, b, i) ==
    \E j \in 1..(i - 1) :
        /\ byte_at(a, j) + byte_at(b, j) >= 256
        /\ \A k \in (j + 1)..(i - 1) : byte_at(a, k) + byte_at(b, k) = 255

\* a + b, a the longer of the two
add_bytes(a, b) ==
    bytes_of([i \in 1..(Len(a) + (IF add_carry(a, b, Len(a) + 1) THEN 1 ELSE 0)) |->
        (byte_at(a, i) + byte_at(b, i) + (IF add_carry(a, b, i) THEN 1 ELSE 0)) % 256])

\* a + b
int_add(a, b) ==
    IF Len(a) >= Len(b) THEN add_bytes(a, b) ELSE add_bytes(b, a)

\* the sum of f[lo], ..., f[hi], by halves
RECURSIVE sum_range(_, _, _)
sum_range(f, lo, hi) ==
    IF lo > hi THEN 0
    ELSE IF lo = hi THEN f[lo]
    ELSE sum_range(f, lo, (lo + hi) \div 2) + sum_range(f, ((lo + hi) \div 2) + 1, hi)

\* the column k of the long multiplication of a by b: the products of the
\* bytes whose places add up to k
mul_column(a, b, k) ==
    sum_range([j \in 1..Len(b) |-> byte_at(a, k + 1 - j) * b[j]], 1, Len(b))

\* the columns of a * b, each below 2^24
mul_columns(a, b) ==
    bytes_of([k \in 1..(Len(a) + Len(b) - 1) |-> mul_column(a, b, k)])

\* the sum of the columns, added as their three bytes
add_columns(cols) ==
    int_add(int_add([k \in 1..Len(cols) |-> cols[k] % 256],
                    <<0>> \o [k \in 1..Len(cols) |-> (cols[k] \div 256) % 256]),
            <<0, 0>> \o [k \in 1..Len(cols) |-> cols[k] \div 65536])

\* a * b
int_mul(a, b) ==
    IF Len(a) = 0 \/ Len(b) = 0 THEN <<>>
    ELSE add_columns(mul_columns(a, b))

\* the bit n of a byte, as 0 or 1
byte_bit(x, n) ==
    (x \div (CASE n = 0 -> 1 [] n = 1 -> 2 [] n = 2 -> 4 [] n = 3 -> 8 [] n = 4 -> 16
               [] n = 5 -> 32 [] n = 6 -> 64 [] OTHER -> 128)) % 2

\* x ^ y and x | y of two bytes
xor_byte(x, y) ==
    ((byte_bit(x, 0) + byte_bit(y, 0)) % 2)
    + 2 * ((byte_bit(x, 1) + byte_bit(y, 1)) % 2)
    + 4 * ((byte_bit(x, 2) + byte_bit(y, 2)) % 2)
    + 8 * ((byte_bit(x, 3) + byte_bit(y, 3)) % 2)
    + 16 * ((byte_bit(x, 4) + byte_bit(y, 4)) % 2)
    + 32 * ((byte_bit(x, 5) + byte_bit(y, 5)) % 2)
    + 64 * ((byte_bit(x, 6) + byte_bit(y, 6)) % 2)
    + 128 * ((byte_bit(x, 7) + byte_bit(y, 7)) % 2)

or_byte(x, y) ==
    Max(byte_bit(x, 0), byte_bit(y, 0))
    + 2 * Max(byte_bit(x, 1), byte_bit(y, 1))
    + 4 * Max(byte_bit(x, 2), byte_bit(y, 2))
    + 8 * Max(byte_bit(x, 3), byte_bit(y, 3))
    + 16 * Max(byte_bit(x, 4), byte_bit(y, 4))
    + 32 * Max(byte_bit(x, 5), byte_bit(y, 5))
    + 64 * Max(byte_bit(x, 6), byte_bit(y, 6))
    + 128 * Max(byte_bit(x, 7), byte_bit(y, 7))

\* a ^ b, a the longer of the two
xor_bytes(a, b) == bytes_of([i \in 1..Len(a) |-> xor_byte(a[i], byte_at(b, i))])

\* a ^ b
int_xor(a, b) ==
    IF Len(a) >= Len(b) THEN xor_bytes(a, b) ELSE xor_bytes(b, a)

\* a | b, a the longer of the two
or_bytes(a, b) == bytes_of([i \in 1..Len(a) |-> or_byte(a[i], byte_at(b, i))])

\* a | b
int_or(a, b) ==
    IF Len(a) >= Len(b) THEN or_bytes(a, b) ELSE or_bytes(b, a)

\* a >> n
int_shr(a, n) ==
    IF Len(a) <= n \div 8 THEN <<>>
    ELSE bytes_of([i \in 1..(Len(a) - (n \div 8)) |->
                     (byte_at(a, i + (n \div 8)) \div Pow2(n % 8))
                     + ((byte_at(a, i + (n \div 8) + 1) * Pow2(8 - (n % 8))) % 256)])

\* a << n
int_shl(a, n) ==
    IF Len(a) = 0 THEN <<0>>
    ELSE bytes_of([i \in 1..(Len(a) + (n \div 8) + 1) |->
                     ((byte_at(a, i - (n \div 8)) * Pow2(n % 8)) % 256)
                     + (byte_at(a, i - (n \div 8) - 1) \div Pow2(8 - (n % 8)))])

\* a & MASK_64
mask_64(a) ==
    IF Len(a) >= 8 THEN SubSeq(a, 1, 8)
    ELSE bytes_of([i \in 1..8 |-> byte_at(a, i)])

\* a & MASK_32
mask_32(a) ==
    IF Len(a) >= 4 THEN SubSeq(a, 1, 4)
    ELSE bytes_of([i \in 1..4 |-> byte_at(a, i)])

\* k0, k1, k2 and kMul
k0 == <<39, 49, 203, 151, 92, 200, 165, 195>>

k1 == <<115, 242, 152, 190, 111, 182, 146, 180>>

k2 == <<79, 64, 144, 47, 59, 106, 225, 154>>

kMul == <<105, 45, 56, 235, 8, 234, 223, 157>>

\* binary[n:] and binary[-n:]
bytes_from(binary, n) == SubSeq(binary, n + 1, Len(binary))

bytes_last(binary, n) == SubSeq(binary, Len(binary) - n + 1, Len(binary))

\* fetch64, fetch32
fetch64(binary) == SubSeq(binary, 1, Min(8, Len(binary)))

fetch32(binary) == SubSeq(binary, 1, Min(4, Len(binary)))

\* bswap_64
bswap_64(i) == bytes_of([j \in 1..8 |-> byte_at(i, 9 - j)])

\* rotate
rotate(val, shift) ==
    IF shift = 0 THEN mask_64(val)
    ELSE mask_64(int_or(int_shr(mask_64(val), shift), int_shl(mask_64(val), 64 - shift)))

\* shift_mix
shift_mix(val) == mask_64(int_xor(mask_64(val), int_shr(mask_64(val), 47)))

\* hash_len_16: b after b ^= (b >> 47), a being a after a ^= (a >> 47)
hash_len_16_b(v, a, mul) ==
    int_xor(mask_64(int_mul(int_xor(v, a), mul)),
            int_shr(mask_64(int_mul(int_xor(v, a), mul)), 47))

\* hash_len_16 that returns b * mul as it is
hash_len_16_no_mask(u, v, mul) ==
    int_mul(hash_len_16_b(v, int_xor(mask_64(int_mul(int_xor(u, v), mul)),
                                     int_shr(mask_64(int_mul(int_xor(u, v), mul)), 47)),
                          mul),
            mul)

\* hash_len_16
hash_len_16(u, v, mul) ==
    mask_64(int_mul(hash_len_16_b(v, int_xor(mask_64(int_mul(int_xor(u, v), mul)),
                                             int_shr(mask_64(int_mul(int_xor(u, v), mul)), 47)),
                                  mul),
                    mul))

\* hash_len_16_2
hash_len_16_2(u, v) == hash_len_16(u, v, kMul)

\* hash_len_0to16 from 8 bytes on, with a and b fetched
hash_len_8to16(a, b, mul) ==
    hash_len_16(int_add(int_mul(rotate(b, 37), mul), a),
                int_mul(int_add(rotate(a, 25), b), mul), mul)

\* hash_len_0to16
hash_len_0to16(binary) ==
    IF Len(binary) >= 8
    THEN hash_len_8to16(int_add(fetch64(binary), k2), fetch64(bytes_last(binary, 8)),
                        int_add(k2, from_int(Len(binary) * 2)))
    ELSE IF Len(binary) >= 4
    THEN hash_len_16(int_add(from_int(Len(binary)), int_shl(fetch32(binary), 3)),
                     fetch32(bytes_last(binary, 4)),
                     int_add(k2, from_int(Len(binary) * 2)))
    ELSE IF Len(binary) > 0
    THEN mask_64(int_mul(
             shift_mix(int_xor(
                 int_mul(mask_32(from_int(binary[1] + binary[(Len(binary) \div 2) + 1] * 256)),
                         k2),
                 int_mul(mask_32(from_int(Len(binary) + binary[Len(binary)] * 4)), k0))),
             k2))
    ELSE k2

\* hash_len_17to32 with a, b, c and d computed
hash_len_17to32_abcd(a, b, c, d, mul) ==
    mask_64(hash_len_16(
        int_add(int_add(rotate(int_add(a, b), 43), rotate(c, 30)), d),
        int_add(int_add(a, rotate(int_add(b, k2), 18)), c),
        mul))

\* hash_len_17to32
hash_len_17to32(binary) ==
    hash_len_17to32_abcd(
        int_mul(fetch64(binary), k1),
        fetch64(bytes_from(binary, 8)),
        int_mul(fetch64(bytes_last(binary, 8)), int_add(k2, from_int(Len(binary) * 2))),
        int_mul(fetch64(bytes_last(binary, 16)), k2),
        int_add(k2, from_int(Len(binary) * 2)))

\* hash_len_33to64, from a = bswap_64((x + z) * mul + y) + b on
hash_len_33to64_end(a, x, z, d, h, mul) ==
    mask_64(int_add(
        int_mul(shift_mix(int_add(int_add(int_mul(int_add(z, a), mul), d), h)), mul),
        x))

\* hash_len_33to64, from y on
hash_len_33to64_y(v, w, x, z, b, d, g, h, mul) ==
    hash_len_33to64_end(
        int_add(bswap_64(int_add(int_mul(int_add(x, z), mul),
                                 int_mul(int_add(bswap_64(int_mul(int_add(v, w), mul)), g),
                                         mul))),
                b),
        x, z, d, h, mul)

\* hash_len_33to64, from w on
hash_len_33to64_w(u, v, b, c, d, e, f, g, h, mul) ==
    hash_len_33to64_y(v, int_add(bswap_64(int_mul(int_add(u, v), mul)), h),
                      int_add(rotate(int_add(e, f), 42), c),
                      int_add(int_add(e, f), c),
                      b, d, g, h, mul)

\* hash_len_33to64, from u on
hash_len_33to64_u(a, b, c, d, e, f, g, h, mul) ==
    hash_len_33to64_w(
        int_add(rotate(int_add(a, g), 43), int_mul(int_add(rotate(b, 30), c), <<9>>)),
        int_add(int_add(int_xor(int_add(a, g), d), f), <<1>>),
        b, c, d, e, f, g, h, mul)

\* hash_len_33to64
hash_len_33to64(binary) ==
    hash_len_33to64_u(
        int_mul(fetch64(binary), k2),
        fetch64(bytes_from(binary, 8)),
        fetch64(bytes_last(binary, 24)),
        fetch64(bytes_last(binary, 32)),
        int_mul(fetch64(bytes_from(binary, 16)), k2),
        int_mul(fetch64(bytes_from(binary, 24)), <<9>>),
        fetch64(bytes_last(binary, 8)),
        int_mul(fetch64(bytes_last(binary, 16)), int_add(k2, from_int(Len(binary) * 2))),
        int_add(k2, from_int(Len(binary) * 2)))

\* weak_hash_len32_with_seeds2, from a += x; a += y on: c is a + w
weak_hash_end(a, b, c, z) ==
    <<mask_64(int_add(a, z)), mask_64(int_add(int_add(b, rotate(a, 44)), c))>>

\* weak_hash_len32_with_seeds2: <<lo, hi>>
weak_hash_len32_with_seeds2(w, x, y, z, a, b) ==
    weak_hash_end(int_add(int_add(int_add(a, w), x), y),
                  rotate(int_add(int_add(b, int_add(a, w)), z), 21),
                  int_add(a, w), z)

\* weak_hash_len32_with_seeds
weak_hash_len32_with_seeds(binary, a, b) ==
    weak_hash_len32_with_seeds2(fetch64(binary), fetch64(bytes_from(binary, 8)),
                                fetch64(bytes_from(binary, 16)),
                                fetch64(bytes_from(binary, 24)), a, b)

\* the return of city_hash_64 after the loop; v and w are <<lo, hi>>
city_hash_64_end(x, y, z, v, w) ==
    hash_len_16_2(
        int_add(int_add(hash_len_16_2(v[1], w[1]), int_mul(shift_mix(y), k1)), z),
        int_add(hash_len_16_2(v[2], w[2]), x))

\* one pass of the loop of city_hash_64 from the two weak hashes on: x, y
\* and z are those the pass computed, and x and z change places at its end
city_hash_64_pass_vw(binary, x, y, z, v, w) ==
    [binary |-> bytes_from(binary, 64), x |-> z, y |-> y, z |-> x,
     v |-> weak_hash_len32_with_seeds(binary, int_mul(v[2], k1), int_add(x, w[1])),
     w |-> weak_hash_len32_with_seeds(bytes_from(binary, 32), int_add(z, w[2]),
                                      int_add(y, fetch64(bytes_from(binary, 16))))]

\* one pass of the loop of city_hash_64 over a block of 64 bytes
city_hash_64_pass(binary, x, y, z, v, w) ==
    city_hash_64_pass_vw(
        binary,
        int_xor(int_mul(rotate(int_add(int_add(int_add(x, y), v[1]),
                                       fetch64(bytes_from(binary, 8))), 37), k1),
                w[2]),
        int_add(int_mul(rotate(int_add(int_add(y, v[2]),
                                       fetch64(bytes_from(binary, 48))), 42), k1),
                int_add(v[1], fetch64(bytes_from(binary, 40)))),
        int_mul(rotate(int_add(z, w[1]), 33), k1),
        v, w)

\* city_hash_64 of more than 64 bytes up to the loop, with x, y and z as they
\* are first computed
city_hash_64_long(binary, x, y, z) ==
    [binary |-> SubSeq(binary, 1, ((Len(binary) - 1) \div 64) * 64),
     x |-> int_add(int_mul(x, k1), fetch64(binary)), y |-> y, z |-> z,
     v |-> weak_hash_len32_with_seeds(bytes_last(binary, 64), from_int(Len(binary)), z),
     w |-> weak_hash_len32_with_seeds(bytes_last(binary, 32), int_add(y, k1), x)]

\* city_hash_64 of at most 64 bytes
city_hash_64_short(binary) ==
    IF Len(binary) <= 16 THEN hash_len_0to16(binary)
    ELSE IF Len(binary) <= 32 THEN hash_len_17to32(binary)
    ELSE hash_len_33to64(binary)

\* ZenImport.generate_hash_from_object_path: city_hash_64(binary) & ~(3 << 62)
clear_type_bits(hash) ==
    bytes_of([i \in 1..Len(hash) |-> IF i = 8 THEN hash[i] % 64 ELSE hash[i]])


\* "none".encode("ascii")
NoneName == <<110, 111, 110, 101>>

\* "/script/engine/texture2d".encode("utf-16-le")
Texture2DPath ==
    utf16_encode(<<47, 115, 99, 114, 105, 112, 116, 47, 101, 110, 103, 105, 110, 101, 47,
                   116, 101, 120, 116, 117, 114, 101, 50, 100>>)

\* a name of 130 bytes
LongName == bytes_of([i \in 1..130 |-> (i * 37 + 11) % 256])

\* the names that are hashed: the two above and LongName cut at every length
HashInputs ==
    {NoneName, Texture2DPath} \cup {SubSeq(LongName, 1, n) : n \in 0..Len(LongName)}

InitHash ==
    /\ file \in HashInputs
    /\ op = "init"
    /\ result = <<>>
    /\ arg = <<>>
    /\ version = VersionInfo("5.3")
    /\ tex = <<>>
    /\ dds = <<>>
    /\ saved = <<>>

\* city_hash_64(binary) of a name of at most 64 bytes
CityHash64 ==
    /\ op = "init"
    /\ Len(file) <= 64
    /\ result' = city_hash_64_short(file)
    /\ op' = "city_hash_64"
    /\ UNCHANGED <<version, tex, arg, dds, file, saved>>

\* city_hash_64(binary) of a longer name, up to its loop
CityHash64Long ==
    /\ op = "init"
    /\ Len(file) > 64
    /\ arg' = city_hash_64_long(
                 file,
                 fetch64(bytes_last(file, 40)),
                 int_add(fetch64(bytes_last(file, 16)), fetch64(bytes_last(file, 56))),
                 hash_len_16_2(int_add(fetch64(bytes_last(file, 48)), from_int(Len(file))),
                               fetch64(bytes_last(file, 24))))
    /\ op' = "loop"
    /\ UNCHANGED <<version, tex, result, dds, file, saved>>

\* while (len(binary) > 0): one pass
CityHash64Pass ==
    /\ op = "loop"
    /\ Len(arg.binary) > 0
    /\ arg' = city_hash_64_pass(arg.binary, arg.x, arg.y, arg.z, arg.v, arg.w)
    /\ UNCHANGED <<version, tex, op, result, dds, file, saved>>

\* the return after the loop
CityHash64Return ==
    /\ op = "loop"
    /\ Len(arg.binary) = 0
    /\ result' = city_hash_64_end(arg.x, arg.y, arg.z, arg.v, arg.w)
    /\ op' = "city_hash_64"
    /\ UNCHANGED <<version, tex, arg, dds, file, saved>>

\* ZenImport.generate_hash_from_object_path: the type bits of the hash of the
\* path are cleared
GenerateHashFromObjectPath ==
    /\ op = "city_hash_64"
    /\ result' = clear_type_bits(result)
    /\ op' = "import_hash"
    /\ UNCHANGED <<version, tex, arg, dds, file, saved>>

NextHash ==
    \/ CityHash64
    \/ CityHash64Long
    \/ CityHash64Pass
    \/ CityHash64Return
    \/ GenerateHashFromObjectPath

SpecHash == InitHash /\ [][NextHash]_vars

(***************************************************************************)
(* File lists (file_list.py, util.py, main.py).  A path is a sequence of   *)
(* characters; os.path is the POSIX one.                                   *)
(***************************************************************************)

\* the longest folder path that is listed
MaxFolderLen == 4

\* str.rfind("/") + 1: the position of the last separator, 0 without one
rfind_sep(p) ==
    IF \E i \in 1..Len(p) : p[i] = "/"
    THEN CHOOSE i \in 1..Len(p) : p[i] = "/" /\ \A j \in (i + 1)..Len(p) : p[j] # "/"
    ELSE 0

\* str.rstrip("/")
RECURSIVE rstrip_sep(_)
rstrip_sep(p) ==
    IF Len(p) > 0 /\ p[Len(p)] = "/" THEN rstrip_sep(SubSeq(p, 1, Len(p) - 1)) ELSE p

\* os.path.basename: what follows the last separator
os_path_basename(p) == SubSeq(p, rfind_sep(p) + 1, Len(p))

\* os.path.dirname: what precedes the last separator, without its trailing
\* separators unless it is made of separators only
os_path_dirname(p) ==
    IF \E i \in 1..rfind_sep(p) : p[i] # "/"
    THEN rstrip_sep(SubSeq(p, 1, rfind_sep(p)))
    ELSE SubSeq(p, 1, rfind_sep(p))

\* os.path.join of two paths: an absolute second path replaces the first
os_path_join(a, b) ==
    IF Len(b) > 0 /\ b[1] = "/" THEN b
    ELSE IF Len(a) = 0 \/ a[Len(a)] = "/" THEN a \o b
    ELSE a \o <<"/">> \o b

\* get_base_folder without the "." case: <<directory, folder>>
get_base_folder_split(p) ==
    IF os_path_basename(p) = <<>>
    THEN <<os_path_basename(os_path_dirname(p)), os_path_dirname(os_path_dirname(p))>>
    ELSE <<os_path_dirname(p), os_path_basename(p)>>

\* get_base_folder: <<directory, folder>>
get_base_folder(p) ==
    IF get_base_folder_split(p)[1] = <<".">>
    THEN <<<<>>, get_base_folder_split(p)[2]>>
    ELSE get_base_folder_split(p)

\* remove_quotes after the line feed is removed
remove_quotes_body(string) ==
    IF string = <<>> \/ string = <<"\"">> THEN <<>>
    ELSE IF string[1] = "\"" /\ string[Len(string)] = "\""
         THEN SubSeq(string, 2, Len(string) - 1)
    ELSE IF string[1] = "\"" THEN Tail(string)
    ELSE IF string[Len(string)] = "\"" THEN SubSeq(string, 1, Len(string) - 1)
    ELSE string

\* remove_quotes of a line (never empty: readlines keeps the line feeds)
remove_quotes(string) ==
    IF string[Len(string)] = "\n"
    THEN remove_quotes_body(SubSeq(string, 1, Len(string) - 1))
    ELSE remove_quotes_body(string)

\* string != ''
NotEmptyLine(string) == string # <<>>

\* the lines of get_file_list_from_txt that are kept
kept_lines(lines) ==
    SelectSeq([i \in 1..Len(lines) |-> remove_quotes(lines[i])] \o <<>>, NotEmptyLine)

\* [os.path.join(folder, file) for file in file_list]
join_all(folder, file_list) ==
    [i \in 1..Len(file_list) |-> os_path_join(folder, file_list[i])] \o <<>>

\* get_file_list_from_txt: <<directory, file_list>>
get_file_list_from_txt(lines) ==
    <<get_base_folder(kept_lines(lines)[1])[1],
      join_all(get_base_folder(kept_lines(lines)[1])[2], Tail(kept_lines(lines)))>>

\* the characters of the folder paths
FolderChars == {"a", "b", "/", "."}

\* the folder paths
FolderPaths == UNION {[1..n -> FolderChars] : n \in 1..MaxFolderLen}

\* the relative paths of the example: uexp/a.uasset and d.dds
RelativePaths == << <<"u", "e", "x", "p", "/", "a", ".", "u", "a", "s", "s", "e", "t">>,
                    <<"d", ".", "d", "d", "s">> >>

\* the text of a file list: the folder line, quoted or not, an empty line and
\* the relative paths, the last line without a line feed
ListLines(p, quoted) ==
    << (IF quoted THEN <<"\"">> \o p \o <<"\"">> ELSE p) \o <<"\n">>,
       <<"\n">>,
       RelativePaths[1] \o <<"\n">>,
       <<"\"">> \o RelativePaths[2] \o <<"\"">> >>

InitList ==
    /\ \E p \in FolderPaths, quoted \in BOOLEAN :
          /\ file = ListLines(p \o <<>>, quoted)
          /\ arg = [folder |-> p \o <<>>, file_list |-> RelativePaths]
    /\ op = "init"
    /\ result = <<>>
    /\ saved = <<>>
    /\ version = VersionInfo("5.3")
    /\ tex = <<>>
    /\ dds = <<>>

\* get_file_list_from_txt(file)
GetFileListFromTxt ==
    /\ op = "init"
    /\ result' = get_file_list_from_txt(file)
    /\ op' = "get_file_list_from_txt"
    /\ UNCHANGED <<version, tex, arg, dds, file, saved>>

\* main with a folder as args.file: the files found under the folder are
\* prefixed with its last component
MainFolder ==
    /\ op = "init"
    /\ result' = <<get_base_folder(arg.folder)[1],
                   join_all(get_base_folder(arg.folder)[2], arg.file_list)>>
    /\ op' = "main"
    /\ UNCHANGED <<version, tex, arg, dds, file, saved>>

\* the mode functions: os.path.join(folder, file) for every listed file
JoinFolder ==
    /\ op \in {"get_file_list_from_txt", "main"}
    /\ saved' = join_all(result[1], result[2])
    /\ op' = "join"
    /\ UNCHANGED <<version, tex, result, arg, dds, file>>

NextList ==
    \/ GetFileListFromTxt
    \/ MainFolder
    \/ JoinFolder

SpecList == InitList /\ [][NextList]_vars

(***************************************************************************)
(* The flag word of a data resource on its own (unreal/data_resource.py).  *)
(***************************************************************************)

\* UE_VERSIONS of main.py: 4.0 to 4.27, 5.0 to 5.3, ff7r and borderlands3
UE_VERSIONS ==
    {"4.0", "4.1", "4.2", "4.3", "4.4", "4.5", "4.6", "4.7", "4.8", "4.9",
     "4.10", "4.11", "4.12", "4.13", "4.14", "4.15", "4.16", "4.17", "4.18",
     "4.19", "4.20", "4.21", "4.22", "4.23", "4.24", "4.25", "4.26", "4.27",
     "5.0", "5.1", "5.2", "5.3", "ff7r", "borderlands3"}

\* the flag words of the files that are read: every combination of the
\* three residence flags, the 64 bit flag and BULKDATA_NoOffsetFixUp
SampleFlagWords ==
    {SumSeq([i \in 1..5 |->
               IF i \in bits
               THEN Pow2(<<BULKDATA_ForceInlinePayload, BULKDATA_Unused,
                           BULKDATA_OptionalPayload, BULKDATA_Size64Bit,
                           BULKDATA_NoOffsetFixUp>>[i])
               ELSE 0]) : bits \in SUBSET (1..5)}

\* the data sizes a resource is updated with
SampleResourceSizes == {0, 64}

InitFlags ==
    /\ version \in {VersionInfo(v) : v \in UE_VERSIONS}
    /\ tex = DataResourceBase
    /\ file \in SampleFlagWords
    /\ op = "init"
    /\ result = "ok"
    /\ arg = DataResourceBase
    /\ dds = <<>>
    /\ saved = <<>>

\* serialize, reading: the flag word of the file is read and unpacked
FlagsRead ==
    /\ op = "init"
    /\ arg' = tex
    /\ IF unpack_bulk_flags_raises(file, version)
       THEN /\ result' = "error"
            /\ tex' = [tex EXCEPT !.bulk_flags = file]
       ELSE /\ result' = "ok"
            /\ tex' = unpack_bulk_flags([tex EXCEPT !.bulk_flags = file], version)
    /\ op' = "read"
    /\ UNCHANGED <<version, dds, file, saved>>

\* DataResourceBase.update then LegacyDataResource.update, as inject does
FlagsDataUpdate ==
    /\ op \in {"init", "read"}
    /\ result = "ok"
    /\ \E data_size \in SampleResourceSizes, in_uexp \in BOOLEAN :
          tex' = data_resource_update(tex, data_size, in_uexp)
    /\ arg' = tex
    /\ op' = "update"
    /\ UNCHANGED <<version, result, dds, file, saved>>

\* serialize, writing, of an archive that is not valid: update_bulk_flags
FlagsWrite ==
    /\ op \in {"read", "update"}
    /\ result = "ok"
    /\ tex' = update_bulk_flags(tex, version)
    /\ arg' = tex
    /\ op' = "update_bulk_flags"
    /\ UNCHANGED <<version, result, dds, file, saved>>

\* serialize, reading, of the word that was written
FlagsReread ==
    /\ op = "update_bulk_flags"
    /\ arg' = tex
    /\ IF unpack_bulk_flags_raises(tex.bulk_flags, version)
       THEN /\ result' = "error"
            /\ tex' = tex
       ELSE /\ result' = "ok"
            /\ tex' = unpack_bulk_flags(tex, version)
    /\ op' = "reread"
    /\ UNCHANGED <<version, dds, file, saved>>

NextFlags ==
    \/ FlagsRead
    \/ FlagsDataUpdate
    \/ FlagsWrite
    \/ FlagsReread

SpecFlags == InitFlags /\ [][NextFlags]_vars

(***************************************************************************)
(* The mip array of a write pass as bytes of the uexp stream, and the      *)
(* second pass over its offset fields (unreal/utexture.py,                 *)
(* unreal/data_resource.py).                                               *)
(***************************************************************************)

\* Int64.write: val.to_bytes(8, "little", signed=True) of a value of 32 bits
Int64_to_bytes(val) ==
    bytes_of([i \in 1..8 |->
        CASE i = 1 -> val % 256
          [] i = 2 -> (val \div 256) % 256
          [] i = 3 -> (val \div 65536) % 256
          [] i = 4 -> (val \div 16777216) % 256
          [] OTHER -> IF val < 0 THEN 255 ELSE 0])

\* the offsets of a write pass that counts both streams from 0
assign_bulk_offsets_from_zero(t, ver, ubulk_start_offset, uptnl_start_offset) ==
    write_prepare_mipmaps(t, ver)

\* __serialize_uexp, writing, before the mip array: every streamed mip gets
\* its offset, counted from the offset its stream had when the write began
assign_bulk_offsets(t, ver, ubulk_start_offset, uptnl_start_offset) ==
    [i \in 1..Len(t.mipmaps) |->
        IF has_ubulk_bulk(write_prepare_mipmaps(t, ver)[i])
        THEN [write_prepare_mipmaps(t, ver)[i] EXCEPT
                 !.data_resource.offset = ubulk_start_offset + @]
        ELSE IF has_uptnl_bulk(write_prepare_mipmaps(t, ver)[i])
        THEN [write_prepare_mipmaps(t, ver)[i] EXCEPT
                 !.data_resource.offset = uptnl_start_offset + @]
        ELSE write_prepare_mipmaps(t, ver)[i]] \o <<>>

\* LegacyDataResource.serialize, writing: bulk_flags, the data size twice as
\* Int32 or Int64, the offset as Int64
LegacyDataResource_bytes(dr) ==
    Int32_to_bytes(dr.bulk_flags)
    \o (IF dr.has_64bit_size THEN Int64_to_bytes(dr.data_size)
        ELSE Int32_to_bytes(dr.data_size))
    \o (IF dr.has_64bit_size THEN Int64_to_bytes(dr.data_size)
        ELSE Int32_to_bytes(dr.data_size))
    \o Int64_to_bytes(dr.offset)

\* the data resource LegacyDataResource.serialize writes at pos: the flags are
\* updated unless the archive is valid, and an inline payload gets the offset
\* of its first byte
LegacyDataResource_written(dr, pos, uasset_size, ver) ==
    IF dr.bulk_type \in {"UEXP", "NONE"}
    THEN [dr EXCEPT !.offset = inline_offset(pos, dr.has_64bit_size, uasset_size, ver)]
    ELSE dr

\* Umipmap.serialize, writing at the end of the stream: bCooked up to 4.27,
\* the data resource, the payload of a uexp mip, width, height, depth from 4.20
Umipmap_bytes(mip, dr, ver) ==
    (IF VersionLE(ver, "4.27") THEN <<1, 0, 0, 0>> ELSE <<>>)
    \o LegacyDataResource_bytes(dr)
    \o (IF dr.bulk_type = "UEXP" THEN [k \in 1..mip.data |-> 170] ELSE <<>>)
    \o Int32_to_bytes(mip.width) \o Int32_to_bytes(mip.height)
    \o (IF VersionGE(ver, "4.20") THEN Int32_to_bytes(mip.depth) ELSE <<>>)

\* self.offset_to_offset of a data resource written in a mip that starts at pos
offset_to_offset_at(pos, dr, ver) ==
    pos + (IF VersionLE(ver, "4.27") THEN 4 ELSE 0)
    + data_resource_head_size(dr.has_64bit_size)

\* the StructArray of mips, written from mip i on: the stream, the mips and
\* the places of their offset fields
RECURSIVE serialize_mipmaps(_, _, _, _, _, _, _)
serialize_mipmaps(stream, mips, offset_to_offset, i, uasset_size, ver, valid) ==
    IF i > Len(mips)
    THEN [stream |-> stream, mipmaps |-> mips, offset_to_offset |-> offset_to_offset]
    ELSE serialize_mipmaps(
             stream \o Umipmap_bytes(
                 mips[i],
                 LegacyDataResource_written(
                     IF valid THEN mips[i].data_resource
                     ELSE update_bulk_flags(mips[i].data_resource, ver),
                     Len(stream), uasset_size, ver),
                 ver),
             [mips EXCEPT ![i].data_resource =
                 LegacyDataResource_written(
                     IF valid THEN mips[i].data_resource
                     ELSE update_bulk_flags(mips[i].data_resource, ver),
                     Len(stream), uasset_size, ver)],
             Append(offset_to_offset,
                    offset_to_offset_at(Len(stream), mips[i].data_resource, ver)),
             i + 1, uasset_size, ver, valid)

\* rewrite_offset that leaves the cursor after the field it wrote
LegacyDataResource_rewrite_offset_no_seek(stream, cursor, offset_to_offset, new_offset) ==
    <<SubSeq(stream, 1, offset_to_offset) \o Int64_to_bytes(new_offset)
      \o SubSeq(stream, offset_to_offset + 9, Len(stream)),
      offset_to_offset + 8>>

\* LegacyDataResource.rewrite_offset: the offset is written over the eight
\* bytes at offset_to_offset and the cursor is put back: <<stream, cursor>>
LegacyDataResource_rewrite_offset(stream, cursor, offset_to_offset, new_offset) ==
    <<SubSeq(stream, 1, offset_to_offset) \o Int64_to_bytes(new_offset)
      \o SubSeq(stream, offset_to_offset + 9, Len(stream)),
      cursor>>

\* the loop of Utexture.rewrite_offset_data from mip i on: the stream, its
\* cursor and the mips
RECURSIVE rewrite_offset_loop(_, _, _, _, _, _)
rewrite_offset_loop(stream, cursor, mips, offset_to_offset, i, ubulk_offset_base) ==
    IF i > Len(mips) THEN [stream |-> stream, cursor |-> cursor, mipmaps |-> mips]
    ELSE IF /\ has_ubulk_bulk(mips[i]) \/ has_uptnl_bulk(mips[i])
            /\ mips[i].data_resource.has_wrong_offset
    THEN rewrite_offset_loop(
             LegacyDataResource_rewrite_offset(
                 stream, cursor, offset_to_offset[i],
                 ubulk_offset_base + mips[i].data_resource.offset)[1],
             LegacyDataResource_rewrite_offset(
                 stream, cursor, offset_to_offset[i],
                 ubulk_offset_base + mips[i].data_resource.offset)[2],
             [mips EXCEPT ![i].data_resource.offset = ubulk_offset_base + @],
             offset_to_offset, i + 1, ubulk_offset_base)
    ELSE rewrite_offset_loop(stream, cursor, mips, offset_to_offset, i + 1,
                             ubulk_offset_base)

\* Utexture.rewrite_offset_data on the uexp stream
Utexture_rewrite_offset_data(stream, cursor, mips, offset_to_offset, uasset_size, ver) ==
    IF VersionLE(ver, "4.15")
    THEN [stream |-> stream, cursor |-> cursor, mipmaps |-> mips]
    ELSE rewrite_offset_loop(stream, cursor, mips, offset_to_offset, 1,
                             -uasset_size - Len(stream))

\* the versions of the write passes
WriteVersions == {"4.15", "4.18", "4.27", "5.0", "ff7r"}

\* the flag words the mips were read with: inline, ubulk and uptnl, the last
\* two with and without BULKDATA_NoOffsetFixUp
MipFlagWords ==
    {Pow2(BULKDATA_ForceInlinePayload), Pow2(BULKDATA_PayloadAtEndOfFile),
     Pow2(BULKDATA_PayloadAtEndOfFile) + Pow2(BULKDATA_NoOffsetFixUp),
     Pow2(BULKDATA_OptionalPayload),
     Pow2(BULKDATA_OptionalPayload) + Pow2(BULKDATA_NoOffsetFixUp)}

\* mip i of n, read with the flag word: 2^(n-i) pixels a side, one byte each
ReadMip(i, n, word, ver) ==
    [width |-> Pow2(n - i), height |-> Pow2(n - i), depth |-> 1,
     data |-> Pow2(n - i) * Pow2(n - i),
     data_resource |->
         unpack_bulk_flags([DataResourceBase EXCEPT
                               !.bulk_flags = word,
                               !.data_size = Pow2(n - i) * Pow2(n - i)], ver)]

\* what is written before the mip array (12 bytes stand for it) and after it
\* (none_name_id)
StreamHead == <<7, 7, 7, 7, 7, 7, 7, 7, 7, 7, 7, 7>>

StreamTail == <<9, 0, 0, 0, 0, 0, 0, 0>>

InitWrite ==
    /\ version \in {VersionInfo(v) : v \in WriteVersions}
    /\ \E n \in 1..MaxMipNum :
          \E words \in [1..n -> MipFlagWords] :
             /\ \A i \in 1..n : ~unpack_bulk_flags_raises(words[i], version)
             /\ tex = [mipmaps |-> [i \in 1..n |-> ReadMip(i, n, words[i], version)] \o <<>>,
                       has_ubulk |-> \E i \in 1..n :
                           ReadMip(i, n, words[i], version).data_resource.bulk_type = "UBULK",
                       has_uptnl |-> \E i \in 1..n :
                           ReadMip(i, n, words[i], version).data_resource.bulk_type = "UPTNL"]
    /\ \E valid \in BOOLEAN, start \in {<<0, 0>>, <<48, 8>>} :
          arg = [uasset_size |-> 700, valid |-> valid,
                 ubulk_tell |-> start[1], uptnl_tell |-> start[2],
                 ubulk_start_offset |-> 0, uptnl_start_offset |-> 0,
                 cursor |-> 0, offset_to_offset |-> <<>>]
    /\ file = <<>>
    /\ op = "init"
    /\ result = "ok"
    /\ dds = <<>>
    /\ saved = <<>>

\* Utexture.serialize with a writing archive: the start offsets are taken,
\* the streamed mips get their offsets and the mip array is written
WriteMipmaps ==
    /\ op = "init"
    /\ LET ubulk_start_offset == IF tex.has_ubulk THEN arg.ubulk_tell ELSE 0
           uptnl_start_offset == IF tex.has_uptnl THEN arg.uptnl_tell ELSE 0
           written == serialize_mipmaps(
                          StreamHead,
                          assign_bulk_offsets(tex, version, ubulk_start_offset,
                                              uptnl_start_offset),
                          <<>>, 1, arg.uasset_size, version, arg.valid)
       IN  /\ file' = written.stream \o StreamTail
           /\ tex' = [tex EXCEPT !.mipmaps = written.mipmaps]
           /\ arg' = [arg EXCEPT !.ubulk_start_offset = ubulk_start_offset,
                                 !.uptnl_start_offset = uptnl_start_offset,
                                 !.cursor = Len(written.stream \o StreamTail),
                                 !.offset_to_offset = written.offset_to_offset]
    /\ op' = "write"
    /\ UNCHANGED <<version, result, dds, saved>>

\* Utexture.rewrite_offset_data, once the uexp has its size
RewriteOffsetData ==
    /\ op = "write"
    /\ LET rewritten == Utexture_rewrite_offset_data(
                            file, arg.cursor, tex.mipmaps, arg.offset_to_offset,
                            arg.uasset_size, version)
       IN  /\ file' = rewritten.stream
           /\ tex' = [tex EXCEPT !.mipmaps = rewritten.mipmaps]
           /\ arg' = [arg EXCEPT !.cursor = rewritten.cursor]
    /\ op' = "rewrite"
    /\ UNCHANGED <<version, result, dds, saved>>

NextWrite ==
    \/ WriteMipmaps
    \/ RewriteOffsetData

SpecWrite == InitWrite /\ [][NextWrite]_vars

(***************************************************************************)
(* The claims.                                                             *)
(***************************************************************************)
\* pixel count of a mip
Pixels(mip) == mip.width * mip.height

\* C1: a package loaded and saved unmodified in valid mode is written back
\* byte-identical, file by file (uasset, uexp, ubulk, uptnl).
C1_ValidRoundTrip ==
    op = "save" => saved[1] = file

\* the mip count and size of a DDS of 2048x2048 with a full chain of 12 mips
Is2048x12(d) ==
    /\ d.header.width = 2048 /\ d.header.height = 2048
    /\ Len(d.mipmap_size_list) = 12

\* the pixel count of the first mip of t that is not streamed, or of its last mip
FirstInlinePixels(t) ==
    LET inl == {i \in 1..Len(t.mipmaps) :
                  t.mipmaps[i].data_resource.bulk_type \in {"UEXP", "NONE"}}
    IN  IF Len(t.mipmaps) = 0 THEN 0
        ELSE IF inl = {} THEN Pixels(t.mipmaps[Len(t.mipmaps)])
        ELSE Pixels(t.mipmaps[CHOOSE i \in inl : \A j \in inl : i <= j])

\* C2: inject_dds raises when the DDS differs from the texture in DXGI format,
\* texture type or array size, and then leaves the texture object as it was.
C2_InjectMismatchRaises ==
    [][(op' = "inject_dds" /\
         (\/ arg'[1].header.dxgi_format # tex.dxgi_format
          \/ DDSHeader_get_texture_type(arg'[1].header) # get_texture_type(tex)
          \/ arg'[1].header.dx10_header.array_size # get_array_size(tex)))
       => (result' = "error" /\ tex' = tex)]_vars

\* C2, its case: a Cube DDS of the texture's own format was refused by a 2D texture
C2_Witness ==
    /\ op = "inject_dds" /\ result = "error"
    /\ has_supported_format(tex)
    /\ arg[1].header.dxgi_format = tex.dxgi_format
    /\ get_texture_type(tex) = "2D"
    /\ DDSHeader_get_texture_type(arg[1].header) = "Cube"

\* C3: remove_mipmaps on a texture of several mips leaves one mip, the former
\* first one, held in uexp, and has_ubulk false.
C3_RemoveMipmaps ==
    [][(op' = "remove_mipmaps" /\ Len(tex.mipmaps) > 1)
       => /\ Len(tex'.mipmaps) = 1
          /\ tex'.mipmaps[1].width = tex.mipmaps[1].width
          /\ tex'.mipmaps[1].height = tex.mipmaps[1].height
          /\ tex'.mipmaps[1].data = tex.mipmaps[1].data
          /\ tex'.mipmaps[1].data_resource.bulk_type = "UEXP"
          /\ ~tex'.has_ubulk]_vars

\* C4, as stated: inject_dds puts a mip in ubulk only if it has at least
\* 1024 x 1024 pixels and is not the last mip.
C4_Original ==
    (op = "inject_dds" /\ result = "ok")
    => \A i \in 1..Len(tex.mipmaps) :
          tex.mipmaps[i].data_resource.bulk_type = "UBULK"
          => (Pixels(tex.mipmaps[i]) >= 1024 * 1024 /\ i < Len(tex.mipmaps))

\* C4, amended: inject_dds puts a mip in ubulk exactly when the texture had
\* ubulk mips before the call, the mip is not the last one, and it has more
\* pixels than the texture's first uexp-resident mip had before the call;
\* every other mip is put in uexp.
C4_InjectPlacement ==
    [][(op' = "inject_dds" /\ result' = "ok")
       => \A i \in 1..Len(tex'.mipmaps) :
             /\ tex'.mipmaps[i].data_resource.bulk_type \in {"UBULK", "UEXP"}
             /\ tex'.mipmaps[i].data_resource.bulk_type = "UBULK"
                <=> (/\ tex.has_ubulk
                     /\ i < Len(tex'.mipmaps)
                     /\ Pixels(tex'.mipmaps[i]) > FirstInlinePixels(tex))]_vars

\* C4, its case: an injection put a mip of fewer than 1024 x 1024 pixels in ubulk
C4_Witness ==
    /\ op = "inject_dds" /\ result = "ok"
    /\ \E i \in 1..Len(tex.mipmaps) :
          /\ tex.mipmaps[i].data_resource.bulk_type = "UBULK"
          /\ Pixels(tex.mipmaps[i]) < 1024 * 1024

C6_SingleMip ==
    (tex.loaded /\ (tex.is_3d \/ tex.is_array)) => Len(tex.mipmaps) <= 1

\* C7: after a successful inject_dds(d) the mip list has one mip per entry of
\* d's mip size list, the imported size is the first mip's size,
\* first_mip_to_serialize is 0, and has_ubulk / has_uptnl tell whether some mip
\* is held in ubulk / uptnl.
C7_AfterInject ==
    (op = "inject_dds" /\ result = "ok")
    => /\ Len(tex.mipmaps) = Len(arg[1].mipmap_size_list)
       /\ Len(tex.mipmaps) > 0
          => /\ tex.imported_width = tex.mipmaps[1].width
             /\ tex.imported_height = tex.mipmaps[1].height
       /\ tex.first_mip_to_serialize = 0
       /\ tex.has_ubulk
          <=> \E i \in 1..Len(tex.mipmaps) : tex.mipmaps[i].data_resource.bulk_type = "UBULK"
       /\ tex.has_uptnl
          <=> \E i \in 1..Len(tex.mipmaps) : tex.mipmaps[i].data_resource.bulk_type = "UPTNL"

\* C7, its case: an injection that left the texture with ubulk mips
C7_Witness ==
    /\ op = "inject_dds" /\ result = "ok"
    /\ Len(tex.mipmaps) > 1
    /\ tex.has_ubulk

\* C8: the DDS of get_dds reports the first mip's size, the number of mips, the
\* texture's DXGI format and cube flag, and holds array_size x depth x
\* (6 if cube else 1) slices.
C8_GetDDSHeader ==
    (op = "get_dds" /\ result = "ok")
    => LET h == dds[1].header
       IN  /\ Len(tex.mipmaps) > 0
              => (h.width = tex.mipmaps[1].width /\ h.height = tex.mipmaps[1].height)
           /\ h.mipmap_num = Len(tex.mipmaps)
           /\ h.dxgi_format = PF_TO_DXGI[tex.pixel_format]
           /\ HasBit(h.caps2, 9) <=> tex.is_cube
           /\ Len(dds[1].slice_bin_list)
              = h.dx10_header.array_size * h.depth * (IF HasBit(h.caps2, 9) THEN 6 ELSE 1)

\* C8, its case: a cube array of two cubes was exported as 12 slices
C8_Witness ==
    /\ op = "get_dds" /\ result = "ok"
    /\ tex.is_cube
    /\ Len(dds[1].slice_bin_list) = 12

\* C9: the DDS of get_dds reports the texture type the texture itself reports.
C9_SameTextureType ==
    (op = "get_dds" /\ result = "ok")
    => DDSHeader_get_texture_type(dds[1].header) = get_texture_type(tex)

\* C10, as stated: for every DDS file that DDS.load accepts, DDS.save of the
\* loaded object writes a file byte-identical to the input file.
C10_Original ==
    op = "dds_save" => saved[1] = file

\* C10, amended: DDS.save of the loaded object writes a file byte-identical to
\* the input file whenever the input holds a whole header (the 128 bytes, and
\* the 20 bytes of the DX10 extension when its FourCC is DX10) and its depth and
\* mip count fields are not zero.
C10_SaveLoad ==
    (/\ op = "dds_save"
     /\ file.head_len = 128
     /\ file.head.pixel_format.fourCC = "DX10" => file.dx10_len = 20
     /\ file.head.depth # 0
     /\ file.head.mipmap_num # 0)
    => saved[1] = file

\* C10, its case: a whole DX10 file with mips and data was loaded and saved
C10_Witness ==
    /\ op = "dds_save"
    /\ file.head_len = 128 /\ file.dx10_len = 20
    /\ file.head.depth # 0 /\ file.head.mipmap_num > 1
    /\ file.data > 0
    /\ saved[1] = file

\* the FourCC codes of the legacy ETC, PVRTC, ATITC and ASTC encodings; a
\* FourCC of three letters is held in the file with a zero byte ("ATC") or a
\* space ("ATC ") after it
LegacyFourCC ==
    {"ETC", "ETC1", "ETC2", "ET2A", "PTC2", "PTC4", "ATC", "ATC ", "ATCA", "ATCE",
     "ATCI", "AS44", "AS55", "AS66", "AS85", "AS86", "AS:5"}

\* C11: loading a DDS file without the DX10 extension whose FourCC is a legacy
\* ETC, PVRTC, ATITC or ASTC code raises; a whole, well-formed file whose
\* FourCC is none of those and which matches no FourCC or bit mask table entry
\* is loaded as B8G8R8A8_UNORM.
C11_LegacyFourCC ==
    LET pf == readinto_head(file).pixel_format
    IN  op = "dds_load"
        => /\ pf.fourCC \in LegacyFourCC => result = "error"
           /\ (/\ pf.fourCC \notin LegacyFourCC \cup {"DX10"}
               /\ ~(HasBit(pf.flags, 2) /\ pf.fourCC \in DOMAIN FOURCC_TO_DXGI)
               /\ pf.bit_mask \notin DOMAIN BITMASK_TO_DXGI
               /\ result = "ok")
              => dds[1].header.dxgi_format = "B8G8R8A8_UNORM"

\* C12, as stated: DDSHeader.update sets the pitch / linear size field to
\* width x height x bytes-per-pixel x (6 if cube else 1), and caps and caps2
\* from (mip count > 1, is_cube, depth > 1) alone.
C12_Original ==
    (op \in {"dds_disassemble", "dds_assemble"} /\ result = "ok" /\ Len(dds) > 0)
    => LET h == dds[1].header
           cube == HasBit(arg[1].header.caps2, 9)
       IN  /\ h.pitch_or_linear_size
              = h.width * h.height * h.byte_per_pixel * (IF cube THEN 6 ELSE 1)
           /\ h.caps = 4096 + (IF h.mipmap_num > 1 THEN 4194312 ELSE IF cube THEN 8 ELSE 0)
           /\ h.caps2 = (IF cube THEN 65024 ELSE 0) + (IF h.depth > 1 THEN 2097152 ELSE 0)

\* C12, amended: DDSHeader.update sets the pitch / linear size field to
\* width x height x bytes-per-pixel for a block-compressed format and to
\* width x bytes-per-pixel for any other, without a factor for cube maps, and
\* sets caps and caps2 from (mip count > 1, is_cube, depth > 1) alone,
\* whatever cap bits the header held before.
C12_Update ==
    (op \in {"dds_disassemble", "dds_assemble"} /\ result = "ok" /\ Len(dds) > 0)
    => LET h == dds[1].header
           cube == HasBit(arg[1].header.caps2, 9)
       IN  /\ h.pitch_or_linear_size
              = IF h.dxgi_format \in {"BC3_UNORM", "BC7_UNORM"}
                THEN h.width * h.height * h.byte_per_pixel
                ELSE h.width * h.byte_per_pixel
           /\ h.caps = 4096 + (IF h.mipmap_num > 1 THEN 4194312 ELSE IF cube THEN 8 ELSE 0)
           /\ h.caps2 = (IF cube THEN 65024 ELSE 0) + (IF h.depth > 1 THEN 2097152 ELSE 0)

\* C12, its case: a header that held the mip and volume cap bits was updated
\* to a single mip and depth 1, and holds neither bit
C12_Witness ==
    /\ op = "dds_disassemble" /\ Len(dds) > 0
    /\ HasBit(arg[1].header.caps, 22) /\ HasBit(arg[1].header.caps2, 21)
    /\ dds[1].header.mipmap_num = 1
    /\ dds[1].header.width > 0
    /\ dds[1].header.caps = 4096 /\ dds[1].header.caps2 = 0

\* C13, as stated: no two supported PF_* names have the same DXGI format, so
\* a change between supported names that keeps the DXGI format keeps the name.
C13_Original ==
    (/\ op = "change_format"
     /\ has_supported_format(tex) /\ has_supported_format(arg[1])
     /\ tex.dxgi_format = arg[1].dxgi_format)
    => tex.pixel_format = arg[1].pixel_format

\* C13, amended: two different supported PF_* names have the same DXGI format
\* only when they are PF_G8 and PF_R8 (R8_UNORM) or PF_FloatRGB and
\* PF_FloatR11G11B10 (R11G11B10_FLOAT); every other supported name is the
\* only one with its DXGI format.
C13_Injective ==
    (/\ op = "change_format"
     /\ has_supported_format(tex) /\ has_supported_format(arg[1])
     /\ tex.dxgi_format = arg[1].dxgi_format)
    => \/ tex.pixel_format = arg[1].pixel_format
       \/ {tex.pixel_format, arg[1].pixel_format} = {"PF_G8", "PF_R8"}
       \/ {tex.pixel_format, arg[1].pixel_format} = {"PF_FloatRGB", "PF_FloatR11G11B10"}

\* C13, its case: a change between two supported names, which have two DXGI
\* formats
C13_Witness ==
    /\ op = "change_format"
    /\ arg[1].pixel_format = "PF_DXT3" /\ arg[1].dxgi_format = "BC2_UNORM"
    /\ tex.pixel_format = "PF_DXT5" /\ tex.dxgi_format = "BC3_UNORM"

\* C14: to_uncompressed() on a compressed texture sets pixel_format to its
\* substitute of the table, which is supported and not compressed, gives the
\* name-table entry pixel_format_name_id that string and no other entry a new
\* value, and changes uasset_size by the difference of the serialized sizes
\* of the two names; on a texture that is not compressed it changes nothing.
C14_ToUncompressed ==
    op = "to_uncompressed"
    => LET old == arg[1]
           id == old.pixel_format_name_id
       IN  IF old.pixel_format \in
                {"PF_DXT1", "PF_DXT3", "PF_DXT5", "PF_BC4", "PF_BC5", "PF_BC6H", "PF_BC7",
                 "PF_ASTC_4x4", "PF_ASTC_6x6", "PF_ASTC_8x8", "PF_ASTC_10x10",
                 "PF_ASTC_12x12"}
           THEN /\ tex.pixel_format
                   = CASE old.pixel_format = "PF_BC4" -> "PF_G8"
                       [] old.pixel_format = "PF_BC5" -> "PF_R8G8"
                       [] old.pixel_format = "PF_BC6H" -> "PF_FloatRGBA"
                       [] OTHER -> "PF_B8G8R8A8"
                /\ has_supported_format(tex) /\ ~is_compressed(tex)
                /\ tex.dxgi_format = PF_TO_DXGI[tex.pixel_format]
                /\ tex.name_list[id] = tex.pixel_format
                /\ Len(tex.name_list) = Len(old.name_list)
                /\ \A j \in 1..Len(old.name_list) :
                      j # id => tex.name_list[j] = old.name_list[j]
                /\ tex.uasset_size - old.uasset_size
                   = write_str_size(tex.name_list[id]) - write_str_size(old.name_list[id])
                /\ to_uncompressed(tex, version) = tex
           ELSE tex = old

\* C14, its case: a compressed texture was converted and the header grew with
\* the longer name
C14_Witness ==
    /\ op = "to_uncompressed"
    /\ arg[1].pixel_format = "PF_BC7"
    /\ tex.pixel_format = "PF_B8G8R8A8"
    /\ tex.uasset_size = arg[1].uasset_size + 5

\* C15: the scan of the property block for the marker 01 00 01 00 01 00 00 00
\* terminates for every byte stream and start position: it finds the marker
\* or it raises.
C15_ScanTerminates == <>(op = "done")

\* C16: every read of a byte run of a declared length (Buffer, Bytes with a
\* size, String, numeric arrays) whose declared length is more than the bytes
\* that remain raises, it never returns a short run.
C16_ShortReadRaises ==
    (/\ op \in {"Buffer", "Bytes", "String", "Uint32Array"}
     /\ arg.size > Max(0, Len(file) - arg.start))
    => result[1]

\* C17: for every encoded string String.read accepts (a positive length n,
\* n - 1 ASCII bytes and a zero byte; or a negative length -n, n - 1 UTF-16LE
\* units and two zero bytes) the cursor ends after the terminator and
\* String.write of the value gives the bytes that were consumed.
C17_StringRoundTrip ==
    LET num == from_bytes_signed(ar_read(file, arg.start, 4))
        n == IF num < 0 THEN -num ELSE num
        width == IF num < 0 THEN 2 ELSE 1
        last == arg.start + 4 + n * width
    IN  (/\ op = "String_write"
         /\ num # 0
         /\ last <= Len(file)
         /\ \A i \in (last - width + 1)..last : file[i] = 0)
        => /\ arg.pos = last
           /\ saved[1] = SubSeq(file, arg.start + 1, last)

\* a version triple, the missing components 0
Triple(s) == [i \in 1..3 |-> IF i <= Len(SplitVersion[s]) THEN SplitVersion[s][i] ELSE 0]

\* the lexicographic order of two triples
LexLess(a, b) ==
    \/ a[1] < b[1]
    \/ a[1] = b[1] /\ a[2] < b[2]
    \/ a[1] = b[1] /\ a[2] = b[2] /\ a[3] < b[3]

\* the comparisons of the claim for the version v and the string s
LexComparisons(v, s) ==
    [lt |-> LexLess(Triple(v.base), Triple(s)),
     le |-> ~LexLess(Triple(s), Triple(v.base)),
     gt |-> LexLess(Triple(s), Triple(v.base)),
     ge |-> ~LexLess(Triple(v.base), Triple(s)),
     eq |-> s = v.base \/ (v.custom # "None" /\ s = v.custom),
     ne |-> ~(s = v.base \/ (v.custom # "None" /\ s = v.custom))]

\* minor and patch of a version string have at most two digits
TwoDigits(s) == Triple(s)[2] < 100 /\ Triple(s)[3] < 100

\* C18, as stated: for every VersionInfo v and version string s of at most
\* three numeric components, <, <=, > and >= are the lexicographic comparison
\* of the triples, == holds exactly for the base string and the fork alias,
\* != is its negation, and v.copy() compares as v does.
C18_Original ==
    /\ op = "compare" => result = LexComparisons(version, arg[1])
    /\ op = "equals"
       => /\ result.eq = (\/ arg[1] = "ff7r" /\ version.base = "4.18"
                             /\ version.custom = "ff7r"
                          \/ arg[1] = "borderlands3" /\ version.base = "4.22"
                             /\ version.custom = "borderlands3")
          /\ result.ne = ~result.eq
    /\ op = "copy"
       => \A s \in VersionStrings : Comparisons(version, s) = Comparisons(arg[1], s)

\* C18, amended: the same, for versions and version strings whose minor and
\* patch components are below 100; version_as_int gives each component two
\* decimal digits, so a larger one runs into the component before it.
C18_Compare ==
    /\ (op = "compare" /\ TwoDigits(version.base) /\ TwoDigits(arg[1]))
       => result = LexComparisons(version, arg[1])
    /\ op = "equals"
       => /\ result.eq = (\/ arg[1] = "ff7r" /\ version.base = "4.18"
                             /\ version.custom = "ff7r"
                          \/ arg[1] = "borderlands3" /\ version.base = "4.22"
                             /\ version.custom = "borderlands3")
          /\ result.ne = ~result.eq
    /\ op = "copy"
       => \A s \in VersionStrings : Comparisons(version, s) = Comparisons(arg[1], s)

\* C18, its case: the fork ff7r, which is 4.18, was found below 4.20.1
C18_Witness ==
    /\ op = "compare"
    /\ version.custom = "ff7r"
    /\ arg[1] = "4.20.1"
    /\ result.lt /\ result.le /\ ~result.gt /\ ~result.ge /\ ~result.eq /\ result.ne

\* C19: city_hash_64 gives an int in [0, 2^64) for every input; the hash of
\* the ASCII name "none" is 0x75370F5BA6352DC2, and the hash of the UTF-16LE
\* path "/script/engine/texture2d" with its top two bits cleared is
\* 0x1B93BCA796D1FA6F.
C19_CityHash ==
    /\ op \in {"city_hash_64", "import_hash"}
       => /\ \A i \in 1..Len(result) : i > 8 => result[i] = 0
          /\ \A i \in 1..Len(result) : result[i] \in 0..255
    /\ (op = "city_hash_64" /\ file = NoneName)
       => SubSeq(result, 1, 8) = <<194, 45, 53, 166, 91, 15, 55, 117>>
    /\ (op = "import_hash" /\ file = Texture2DPath)
       => SubSeq(result, 1, 8) = <<111, 250, 209, 150, 167, 188, 147, 27>>

\* C19, its case: a name of more than 64 bytes went through the loop and has
\* a hash of 64 bits
C19_Witness ==
    /\ op = "city_hash_64"
    /\ Len(file) = 130
    /\ Len(result) = 8
    /\ result[8] >= 128

\* the components of a path: what its separators delimit, without the empty
\* ones and the "." ones
RECURSIVE Components(_)
Components(p) ==
    IF Len(p) = 0 THEN <<>>
    ELSE IF rfind_sep(p) = 0 THEN (IF p = <<".">> THEN <<>> ELSE <<p>>)
    ELSE Components(SubSeq(p, 1, rfind_sep(p) - 1))
         \o (IF rfind_sep(p) = Len(p) \/ SubSeq(p, rfind_sep(p) + 1, Len(p)) = <<".">>
             THEN <<>> ELSE <<SubSeq(p, rfind_sep(p) + 1, Len(p))>>)

\* two paths name the same file: both absolute or both relative, with the
\* same components
SamePath(p, q) ==
    /\ (Len(p) > 0 /\ p[1] = "/") <=> (Len(q) > 0 /\ q[1] = "/")
    /\ Components(p) = Components(q)

\* C20: for a file list whose first line is a folder path and whose other
\* lines are relative paths, joining the directory that get_file_list_from_txt
\* (or get_base_folder in main) returns with each returned file path names
\* <folder>/<relative path>, whether the folder ends with a separator or not.
C20_FileListResolves ==
    op = "join"
    => \A i \in 1..Len(saved) :
          SamePath(saved[i], arg.folder \o <<"/">> \o arg.file_list[i])


\* C21: for every supported version and every bulk_type of UEXP, UBULK,
\* UPTNL and NONE, unpack_bulk_flags of the word update_bulk_flags produced
\* gives the same bulk_type and has_64bit_size without raising, and
\* unpack_bulk_flags never leaves bulk_type UNKNOWN.
C21_FlagsRoundTrip ==
    /\ (op = "reread" /\ arg.bulk_type \in {"UEXP", "UBULK", "UPTNL", "NONE"})
       => /\ result = "ok"
          /\ tex.bulk_type = arg.bulk_type
          /\ tex.has_64bit_size = arg.has_64bit_size
    /\ (op \in {"read", "reread"} /\ result = "ok") => tex.bulk_type # "UNKNOWN"

\* a 64 bit UPTNL resource of borderlands3 was written and read again
C21_Witness ==
    /\ op = "reread"
    /\ version.custom = "borderlands3"
    /\ arg.bulk_type = "UPTNL"
    /\ arg.has_64bit_size
    /\ tex.bulk_type = "UPTNL"

\* mip i of the texture is streamed and has_wrong_offset
FlaggedMip(i) ==
    /\ has_ubulk_bulk(tex.mipmaps[i]) \/ has_uptnl_bulk(tex.mipmaps[i])
    /\ tex.mipmaps[i].data_resource.has_wrong_offset

\* the eight bytes at place at of the stream read as an Int64 of 32 bits
IsInt64At(stream, at, val) ==
    /\ from_bytes_signed(SubSeq(stream, at + 1, at + 4)) = val
    /\ \A k \in (at + 5)..(at + 8) : stream[k] = (IF val < 0 THEN 255 ELSE 0)

\* C22: rewrite_offset_data, run after the write pass, rewrites for each
\* streamed mip that has_wrong_offset exactly the 8 bytes of its offset field
\* to its offset of the write pass less uasset_size + uexp_size, leaves every
\* other byte of the stream and the cursor as they were, and changes nothing
\* for versions up to 4.15 or for mips that are not flagged.
C22_RewriteOffsets ==
    [][(op = "write" /\ op' = "rewrite")
       => /\ arg'.cursor = arg.cursor
          /\ Len(file') = Len(file)
          /\ VersionLE(version, "4.15") => file' = file
          /\ \A k \in 1..Len(file) :
                file'[k] # file[k]
                => /\ ~VersionLE(version, "4.15")
                   /\ \E i \in 1..Len(tex.mipmaps) :
                         /\ FlaggedMip(i)
                         /\ k > arg.offset_to_offset[i]
                         /\ k <= arg.offset_to_offset[i] + 8
          /\ \A i \in 1..Len(tex.mipmaps) :
                /\ IsInt64At(file, arg.offset_to_offset[i],
                             tex.mipmaps[i].data_resource.offset)
                /\ IsInt64At(file', arg.offset_to_offset[i],
                             IF FlaggedMip(i) /\ ~VersionLE(version, "4.15")
                             THEN tex.mipmaps[i].data_resource.offset
                                  - (arg.uasset_size + Len(file))
                             ELSE tex.mipmaps[i].data_resource.offset)]_vars

\* the offset fields of a ubulk mip and of a uptnl mip were rewritten, next to
\* a mip that was left alone
C22_Witness ==
    /\ op = "rewrite"
    /\ Len(tex.mipmaps) = 2
    /\ FlaggedMip(1)
    /\ has_ubulk_bulk(tex.mipmaps[1])
    /\ has_uexp_bulk(tex.mipmaps[2])
    /\ tex.mipmaps[1].data_resource.offset = 48 - (arg.uasset_size + Len(file))
    /\ IsInt64At(file, arg.offset_to_offset[1], 48 - (arg.uasset_size + Len(file)))

\* the data sizes of the mips before mip i that are of the bulk type
BulkSizeBefore(i, type) ==
    SumSeq([k \in 1..(i - 1) |->
               IF tex.mipmaps[k].data_resource.bulk_type = type
               THEN tex.mipmaps[k].data ELSE 0])

\* C23: in a write pass the ubulk mips get consecutive offsets in mip order
\* that start at the position the ubulk stream had when the write began (the
\* offset of a mip is that start plus the data sizes of the ubulk mips before
\* it), and the uptnl mips the same, on their own, in the uptnl stream.
C23_BulkOffsets ==
    op = "write"
    => \A i \in 1..Len(tex.mipmaps) :
          /\ has_ubulk_bulk(tex.mipmaps[i])
             => tex.mipmaps[i].data_resource.offset
                = arg.ubulk_tell + BulkSizeBefore(i, "UBULK")
          /\ has_uptnl_bulk(tex.mipmaps[i])
             => tex.mipmaps[i].data_resource.offset
                = arg.uptnl_tell + BulkSizeBefore(i, "UPTNL")

\* two ubulk mips were written after a ubulk stream that was not empty
C23_Witness ==
    /\ op = "write"
    /\ Len(tex.mipmaps) = 2
    /\ has_ubulk_bulk(tex.mipmaps[1]) /\ has_ubulk_bulk(tex.mipmaps[2])
    /\ arg.ubulk_tell = 48
    /\ tex.mipmaps[1].data_resource.offset = 48
    /\ tex.mipmaps[2].data_resource.offset = 52

\* the mip sizes of a list never grow from one mip to the next
NonIncreasing(sizes) ==
    \A i \in 1..(Len(sizes) - 1) :
        sizes[i + 1][1] * sizes[i + 1][2] <= sizes[i][1] * sizes[i][2]

\* C24: after inject_dds of a DDS whose mip sizes never grow, the last mip is
\* held in uexp, the ubulk mips are a prefix of the mip list, no mip is held
\* in uptnl, and no mip is held in ubulk unless the texture had a ubulk mip
\* before the call.
C24_InjectResidency ==
    [][(op' = "inject_dds" /\ result' = "ok" /\ NonIncreasing(arg'[1].mipmap_size_list))
       => /\ Len(tex'.mipmaps) > 0
             => tex'.mipmaps[Len(tex'.mipmaps)].data_resource.bulk_type = "UEXP"
          /\ \A i \in 1..Len(tex'.mipmaps) : \A j \in 1..i :
                tex'.mipmaps[i].data_resource.bulk_type = "UBULK"
                => tex'.mipmaps[j].data_resource.bulk_type = "UBULK"
          /\ \A i \in 1..Len(tex'.mipmaps) :
                tex'.mipmaps[i].data_resource.bulk_type # "UPTNL"
          /\ (\E i \in 1..Len(tex'.mipmaps) :
                 tex'.mipmaps[i].data_resource.bulk_type = "UBULK")
             => \E k \in 1..Len(tex.mipmaps) :
                   tex.mipmaps[k].data_resource.bulk_type = "UBULK"]_vars

\* C25: after inject_dds(d) succeeds on a volume texture, get_depth(), the
\* num_slices packed on the next save and the depth of a later get_dds() all
\* equal d.header.depth.
C25_InjectDepth ==
    (op = "inject_dds" /\ result = "ok" /\ tex.is_3d)
    => /\ get_depth(tex) = arg[1].header.depth
       /\ update_packed_data(tex, version).packed_data.num = arg[1].header.depth
       /\ ~get_dds_raises(tex) => get_dds(tex).header.depth = arg[1].header.depth

\* C26: the DDS of get_dds() has a mip size list with one [width, height]
\* entry per mip, in mip order and equal to each mip's size.
C26_MipSizeList ==
    (op = "get_dds" /\ result = "ok")
    => /\ Len(dds[1].mipmap_size_list) = Len(tex.mipmaps)
       /\ \A i \in 1..Len(tex.mipmaps) :
             dds[1].mipmap_size_list[i] = <<tex.mipmaps[i].width, tex.mipmaps[i].height>>

(***************************************************************************)
(* unreal/file_summary.py, unreal/import_export.py: the name map of a zen  *)
(* (IO store) package. A name is a record of its 8 hash bytes, its 2 head  *)
(* bytes and its string, a sequence of code points.                        *)
(***************************************************************************)
\* the most code points of a sample name, the most names of a sample list
MaxNameLen == 2

MaxNameCount == 2

\* Uint32.write: val.to_bytes(4, "little")
Uint32_to_bytes(val) ==
    <<val % 256, (val \div 256) % 256, (val \div 65536) % 256, val \div 16777216>>

\* Uint64.write of 0xC1640000
hash_version == <<0, 0, 100, 193, 0, 0, 0, 0>>

\* ZenName.update without update_hash
ZenName_update(n, new_name) ==
    [n EXCEPT !.head = <<(Len(new_name) \div 256) + (IF isascii(new_name) THEN 0 ELSE 128),
                         Len(new_name) % 256>>,
              !.name = new_name]

\* ZenName.serialize_string: the length and the encoding the head gives
ZenName_length(head) == head[2] + ((head[1] % 128) * 256)

ZenName_is_utf16(head) == head[1] >= 128

\* StringWithLen.write: val.encode(encode); the length argument is not used
StringWithLen_write(val, utf16) ==
    IF utf16 THEN utf16_encode(val) ELSE val

\* StringWithLen.write raises: val.encode("ascii") of a string that is not ASCII
StringWithLen_write_raises(val, utf16) == ~utf16 /\ ~isascii(val)

\* StringWithLen.read: <<raises, value, cursor>>
StringWithLen_read(stream, pos, num, utf16) ==
    LET body == ar_read(stream, pos, num * (IF utf16 THEN 2 ELSE 1))
    IN  IF utf16
        THEN IF utf16_decode_raises(body) THEN <<TRUE, <<>>, pos + Len(body)>>
             ELSE <<FALSE, utf16_code_points(utf16_units(body)), pos + Len(body)>>
        ELSE IF ascii_decode_raises(body) THEN <<TRUE, <<>>, pos + Len(body)>>
             ELSE <<FALSE, body, pos + Len(body)>>

\* the bytes of list(map(lambda x: x.serialize_hash(ar), name_list))
RECURSIVE serialize_hashes(_)
serialize_hashes(name_list) ==
    IF Len(name_list) = 0 THEN <<>>
    ELSE name_list[1].hash \o serialize_hashes(Tail(name_list))

\* the bytes of list(map(lambda x: x.serialize_head(ar), name_list))
RECURSIVE serialize_heads(_)
serialize_heads(name_list) ==
    IF Len(name_list) = 0 THEN <<>>
    ELSE name_list[1].head \o serialize_heads(Tail(name_list))

\* the bytes of list(map(lambda x: x.serialize_string(ar), name_list))
RECURSIVE serialize_strings(_)
serialize_strings(name_list) ==
    IF Len(name_list) = 0 THEN <<>>
    ELSE StringWithLen_write(name_list[1].name, ZenName_is_utf16(name_list[1].head))
         \o serialize_strings(Tail(name_list))

\* sum(len(str(n)) for n in name_list)
RECURSIVE sum_len_str(_)
sum_len_str(name_list) ==
    IF Len(name_list) = 0 THEN 0
    ELSE Len(name_list[1].name) + sum_len_str(Tail(name_list))

\* ZenPackageSummary.serialize_name_map with a writing archive, for the
\* versions of UE_VERSIONS (all below 5.4): the two fields and the bytes
serialize_name_map_write(name_list) ==
    [name_count |-> Len(name_list),
     name_map_size |-> sum_len_str(name_list),
     stream |-> Uint32_to_bytes(Len(name_list))
                \o Uint32_to_bytes(sum_len_str(name_list))
                \o hash_version
                \o serialize_hashes(name_list)
                \o serialize_heads(name_list)
                \o serialize_strings(name_list)]

\* the strings of a reading archive: the names with their strings read from
\* pos on, [raises, name_list, cursor]
RECURSIVE read_strings(_, _, _, _)
read_strings(stream, pos, name_list, i) ==
    IF i > Len(name_list) THEN [raises |-> FALSE, name_list |-> name_list, cursor |-> pos]
    ELSE LET r == StringWithLen_read(stream, pos, ZenName_length(name_list[i].head),
                                     ZenName_is_utf16(name_list[i].head))
         IN  IF r[1] THEN [raises |-> TRUE, name_list |-> name_list, cursor |-> r[3]]
             ELSE read_strings(stream, r[3],
                               [name_list EXCEPT ![i].name = r[2]], i + 1)

\* ZenPackageSummary.serialize_name_map with a reading archive at offset 0:
\* the two fields, the names, the offset of the first string and the cursor
serialize_name_map_read(stream) ==
    LET name_count == from_bytes_unsigned(ar_read(stream, 0, 4))
        name_map_size == from_bytes_unsigned(ar_read(stream, 4, 4))
        strings_at == 16 + 10 * name_count
        heads_at == 16 + 8 * name_count
        names == [i \in 1..name_count |->
                     [hash |-> ar_read(stream, 16 + 8 * (i - 1), 8),
                      head |-> ar_read(stream, heads_at + 2 * (i - 1), 2),
                      name |-> <<>>]]
        strings == read_strings(stream, strings_at, names, 1)
    IN  [raises |-> \/ ar_read(stream, 8, 8) # hash_version
                    \/ check_buffer_size_raises(stream, 16, name_map_size)
                    \/ Len(stream) < strings_at
                    \/ strings.raises,
         name_count |-> name_count,
         name_map_size |-> name_map_size,
         name_list |-> strings.name_list,
         strings_at |-> strings_at,
         cursor |-> strings.cursor]

\* the letter a and the hiragana letter a
NameChars == {97, 12354}

\* the strings of up to MaxNameLen code points
NameStrings ==
    UNION {[1..n -> NameChars] : n \in 0..MaxNameLen}

\* a hash as it was read from the package
SampleHash == <<1, 2, 3, 4, 5, 6, 7, 8>>

\* a name as the engine saves it: wide exactly when it is not ASCII
SampleName(string) ==
    ZenName_update([hash |-> SampleHash, head |-> <<0, 0>>, name |-> <<>>], string \o <<>>)

ZenVersions == {"5.0", "5.1", "5.2", "5.3"}

InitNames ==
    /\ version \in {VersionInfo(v) : v \in ZenVersions}
    /\ \E n \in 0..MaxNameCount :
          \E strings \in [1..n -> NameStrings] :
             arg = [i \in 1..n |-> SampleName(strings[i])] \o <<>>
    /\ tex = [name_count |-> 0, name_map_size |-> 0]
    /\ file = <<>>
    /\ op = "init"
    /\ result = "ok"
    /\ dds = <<>>
    /\ saved = <<>>

\* a name of the list is replaced (NameBase.update)
UpdateName ==
    /\ op = "init"
    /\ \E i \in 1..Len(arg), new_name \in NameStrings :
          arg' = [arg EXCEPT ![i] = ZenName_update(arg[i], new_name \o <<>>)]
    /\ op' = "update"
    /\ UNCHANGED <<version, tex, file, result, dds, saved>>

\* serialize_name_map with a writing archive
SerializeNameMap ==
    /\ op \in {"init", "update"}
    /\ LET written == serialize_name_map_write(arg)
       IN  /\ file' = written.stream
           /\ tex' = [name_count |-> written.name_count,
                      name_map_size |-> written.name_map_size]
    /\ op' = "write"
    /\ result' = "ok"
    /\ UNCHANGED <<version, arg, dds, saved>>

\* serialize_name_map with a reading archive over the bytes written
LoadNameMap ==
    /\ op = "write"
    /\ LET loaded == serialize_name_map_read(file)
       IN  /\ result' = IF loaded.raises THEN "error" ELSE "ok"
           /\ tex' = [name_count |-> loaded.name_count,
                      name_map_size |-> loaded.name_map_size]
           /\ saved' = [name_list |-> loaded.name_list,
                        strings_at |-> loaded.strings_at,
                        cursor |-> loaded.cursor]
    /\ op' = "read"
    /\ UNCHANGED <<version, arg, file, dds>>

NextNames ==
    \/ UpdateName
    \/ SerializeNameMap
    \/ LoadNameMap

SpecNames == InitNames /\ [][NextNames]_vars

\* C27: the name_map_size written is the number of bytes of name strings written
\* after the hash and head tables, and a read of the written name map finds
\* the strings in exactly name_map_size bytes
C27_NameMapSize ==
    /\ op = "write"
       => tex.name_map_size = Len(file) - (16 + 10 * tex.name_count)
    /\ (op = "read" /\ result = "ok")
       => tex.name_map_size = saved.cursor - saved.strings_at


(***************************************************************************)
(* unreal/import_export.py, unreal/file_summary.py: the export table of a  *)
(* package, of the uasset layout (UassetExport) or of the zen layout       *)
(* (ZenExport, whose object indices are ZenImport words). A 64-bit value   *)
(* is kept as its 8 little-endian bytes.                                   *)
(***************************************************************************)
\* the most exports of a sample table
MaxExportNum == 2

\* ImportType
ImportType_Export == 0

ImportType_ScriptImport == 1

ImportType_PackageImport == 2

\* ZenImport.INDEX_BITS
INDEX_BITS == 62

\* a & b for two non-negative integers below 4
and_2bit(a, b) ==
    (IF HasBit(a, 0) /\ HasBit(b, 0) THEN 1 ELSE 0)
    + (IF HasBit(a, 1) /\ HasBit(b, 1) THEN 2 ELSE 0)

\* SCRIPT_OBJECTS: the id (hash) and the name of each entry
SCRIPT_OBJECTS ==
    {
      <<<<34, 9, 124, 220, 211, 206, 172, 17>>, "/Script/Engine">>,
      <<<<111, 250, 209, 150, 167, 188, 147, 27>>, "Texture2D">>,
      <<<<208, 246, 177, 200, 74, 211, 250, 43>>, "Default__Texture2D">>,
      <<<<174, 200, 189, 138, 66, 49, 255, 33>>, "TextureCube">>,
      <<<<229, 95, 253, 144, 62, 210, 18, 55>>, "Default__TextureCube">>,
      <<<<97, 209, 163, 75, 95, 200, 97, 36>>, "VolumeTexture">>,
      <<<<99, 229, 106, 218, 7, 4, 91, 1>>, "Default__VolumeTexture">>,
      <<<<251, 230, 36, 193, 108, 147, 116, 43>>, "Texture2DArray">>,
      <<<<21, 231, 147, 91, 80, 210, 12, 37>>, "Default__Texture2DArray">>,
      <<<<130, 46, 194, 160, 77, 191, 235, 34>>, "TextureCubeArray">>,
      <<<<151, 163, 131, 156, 234, 167, 219, 20>>, "Default__TextureCubeArray">>,
      <<<<25, 100, 80, 72, 78, 202, 230, 47>>, "LightMapTexture2D">>,
      <<<<47, 145, 209, 17, 84, 18, 158, 2>>, "Default__LightMapTexture2D">>,
      <<<<191, 55, 109, 107, 108, 167, 144, 30>>, "ShadowMapTexture2D">>,
      <<<<247, 50, 214, 136, 197, 75, 187, 1>>, "Default__ShadowMapTexture2D">>
    }

\* index.id in SCRIPT_OBJECTS
in_SCRIPT_OBJECTS(id) == \E e \in SCRIPT_OBJECTS : e[1] = id

\* SCRIPT_OBJECTS[index.id][0]
SCRIPT_OBJECTS_name(id) == (CHOOSE e \in SCRIPT_OBJECTS : e[1] = id)[2]

\* ZenImport.serialize with a reading archive, after the Uint64 was read:
\* id = type_and_id & INDEX_MASK, type = type_and_id >> INDEX_BITS
ZenImport_read(type_and_id) ==
    [type_and_id |-> type_and_id,
     id |-> bytes_of([i \in 1..8 |-> IF i = 8 THEN type_and_id[i] % Pow2(INDEX_BITS - 56)
                                      ELSE type_and_id[i]]),
     type |-> type_and_id[8] \div Pow2(INDEX_BITS - 56)]

\* ZenImport.serialize with a writing archive, with the top byte of
\* type << INDEX_BITS kept in place of the value of the bits: the word written
ZenImport_write_shifted(index, top_byte) ==
    bytes_of([i \in 1..8 |-> IF i = 8 THEN or_byte(top_byte, index.id[i])
                             ELSE index.id[i]])

\* ZenImport.serialize with a writing archive without the type bits
ZenImport_write_no_type(index) == ZenImport_write_shifted(index, 0)

\* ZenImport.serialize with a writing archive: type << INDEX_BITS | id
ZenImport_write(index) ==
    ZenImport_write_shifted(index, (index.type * Pow2(INDEX_BITS - 56)) % 256)

\* ZenImport.is_invalid
is_invalid(index) == index.type_and_id = <<255, 255, 255, 255, 255, 255, 255, 255>>

\* ZenImport.is_script_object
is_script_object(index) == and_2bit(index.type, ImportType_ScriptImport) > 0

\* ZenImport.is_export
is_export(index) == and_2bit(index.type, ImportType_Export) > 0

\* ZenExport.get_struct_size
ZenExport_get_struct_size == 72

\* ZenExport.serialize with a reading archive at pos: [raises, export, cursor]
ZenExport_read(stream, pos) ==
    [raises |-> ar_read(stream, pos + 69, 3) # <<0, 0, 0>>,
     export |-> [offset |-> ar_read(stream, pos, 8),
                 size |-> ar_read(stream, pos + 8, 8),
                 name_id |-> from_bytes_unsigned(ar_read(stream, pos + 16, 4)),
                 name_number |-> from_bytes_unsigned(ar_read(stream, pos + 20, 4)),
                 outer_index |-> ZenImport_read(ar_read(stream, pos + 24, 8)),
                 class_index |-> ZenImport_read(ar_read(stream, pos + 32, 8)),
                 super_index |-> ZenImport_read(ar_read(stream, pos + 40, 8)),
                 template_index |-> ZenImport_read(ar_read(stream, pos + 48, 8)),
                 public_export_hash |-> ar_read(stream, pos + 56, 8),
                 object_flags |-> from_bytes_unsigned(ar_read(stream, pos + 64, 4)),
                 filter_flags |-> from_bytes_unsigned(ar_read(stream, pos + 68, 1)),
                 name |-> "", class_name |-> "", super_name |-> "",
                 template_name |-> ""],
     cursor |-> pos + 8 + 8 + 4 + 4 + 8 + 8 + 8 + 8 + 8 + 4 + 1
                + Len(ar_read(stream, pos + 69, 3))]

\* ZenExport.serialize with a writing archive: the bytes written
ZenExport_write(export) ==
    export.offset \o export.size
    \o Uint32_to_bytes(export.name_id) \o Uint32_to_bytes(export.name_number)
    \o ZenImport_write(export.outer_index) \o ZenImport_write(export.class_index)
    \o ZenImport_write(export.super_index) \o ZenImport_write(export.template_index)
    \o export.public_export_hash
    \o Uint32_to_bytes(export.object_flags) \o <<export.filter_flags>>
    \o <<0, 0, 0>>

\* index.id as a list index: an id of more than 24 bits is past every list
id_as_index(id) ==
    IF SubSeq(id, 4, 8) = <<0, 0, 0, 0, 0>> THEN from_bytes_unsigned(SubSeq(id, 1, 3))
    ELSE Pow2(24)

\* ZenExport.name_export, index_to_name: <<raises, name>>; exports[index.id]
\* raises past the end of the list and .name raises for an export that has
\* no name yet
index_to_name(index, exports, named) ==
    IF is_invalid(index) THEN <<FALSE, "None">>
    ELSE IF is_export(index)
    THEN IF id_as_index(index.id) + 1 > Min(Len(exports), named) THEN <<TRUE, "">>
         ELSE <<FALSE, exports[id_as_index(index.id) + 1].name>>
    ELSE IF is_script_object(index) /\ in_SCRIPT_OBJECTS(index.id)
    THEN <<FALSE, SCRIPT_OBJECTS_name(index.id)>>
    ELSE <<FALSE, "???">>

\* ZenExport.name_export of export i, the exports before it named:
\* <<raises, exports>>
ZenExport_name_export(exports, i, name_list) ==
    LET c == index_to_name(exports[i].class_index, exports, i - 1)
        s == index_to_name(exports[i].super_index, exports, i - 1)
        t == index_to_name(exports[i].template_index, exports, i - 1)
    IN  IF exports[i].name_id + 1 > Len(name_list) \/ c[1] \/ s[1] \/ t[1]
        THEN <<TRUE, exports>>
        ELSE <<FALSE, [exports EXCEPT ![i].name = name_list[exports[i].name_id + 1],
                                      ![i].class_name = c[2],
                                      ![i].super_name = s[2],
                                      ![i].template_name = t[2]]>>

\* name_export of every export in order: <<raises, exports>>
RECURSIVE name_exports(_, _, _)
name_exports(exports, i, name_list) ==
    IF i > Len(exports) THEN <<FALSE, exports>>
    ELSE LET r == ZenExport_name_export(exports, i, name_list)
         IN  IF r[1] THEN r ELSE name_exports(r[2], i + 1, name_list)

\* UassetExport.get_remainings_size
get_remainings_size(ver) ==
    IF VersionLE(ver, "4.2") THEN 32
    ELSE IF VersionLE(ver, "4.10") THEN 36
    ELSE IF VersionLE(ver, "4.13") THEN 40
    ELSE IF VersionLE(ver, "4.15") THEN 60
    ELSE IF VersionLE(ver, "4.27") THEN 64
    ELSE IF VersionLE(ver, "5.0") THEN 68
    ELSE 56

\* UassetExport.get_struct_size without the 4 bytes of the wider size field
UassetExport_get_struct_size_narrow(ver) ==
    32 + (IF VersionGE(ver, "4.14") THEN 4 ELSE 0) + get_remainings_size(ver)

\* UassetExport.get_struct_size
UassetExport_get_struct_size(ver) ==
    32 + (IF VersionGE(ver, "4.14") THEN 4 ELSE 0)
       + (IF VersionGE(ver, "4.16") THEN 4 ELSE 0)
       + get_remainings_size(ver)

\* UassetExport.serialize with a reading archive at pos: [export, cursor]
UassetExport_read(stream, pos, ver) ==
    LET template_size == IF VersionGE(ver, "4.14") THEN 4 ELSE 0
        size_at == pos + 8 + template_size + 16
        size_size == IF VersionLE(ver, "4.15") THEN 4 ELSE 8
        remain_at == size_at + size_size + 4
    IN  [export |->
            [class_index |-> from_bytes_signed(ar_read(stream, pos, 4)),
             super_index |-> from_bytes_signed(ar_read(stream, pos + 4, 4)),
             template_index |-> IF VersionGE(ver, "4.14")
                                THEN from_bytes_signed(ar_read(stream, pos + 8, 4))
                                ELSE 0,
             outer_index |-> from_bytes_signed(ar_read(stream, pos + 8 + template_size, 4)),
             name_id |-> from_bytes_signed(ar_read(stream, pos + 12 + template_size, 4)),
             name_number |-> from_bytes_signed(ar_read(stream, pos + 16 + template_size, 4)),
             object_flags |-> from_bytes_unsigned(ar_read(stream, pos + 20 + template_size, 4)),
             size |-> ar_read(stream, size_at, size_size),
             offset |-> from_bytes_unsigned(ar_read(stream, size_at + size_size, 4)),
             remainings |-> ar_read(stream, remain_at, get_remainings_size(ver))],
         cursor |-> remain_at + Len(ar_read(stream, remain_at, get_remainings_size(ver)))]

\* UassetExport.serialize with a writing archive: the bytes written
UassetExport_write(export, ver) ==
    Int32_to_bytes(export.class_index) \o Int32_to_bytes(export.super_index)
    \o (IF VersionGE(ver, "4.14") THEN Int32_to_bytes(export.template_index) ELSE <<>>)
    \o Int32_to_bytes(export.outer_index)
    \o Int32_to_bytes(export.name_id) \o Int32_to_bytes(export.name_number)
    \o Uint32_to_bytes(export.object_flags)
    \o (IF VersionLE(ver, "4.15") THEN SubSeq(export.size \o <<0, 0, 0, 0>>, 1, 4)
        ELSE SubSeq(export.size \o <<0, 0, 0, 0, 0, 0, 0, 0>>, 1, 8))
    \o Uint32_to_bytes(export.offset)
    \o export.remainings

\* serialize_exports with a reading archive at pos, count exports to read:
\* [raises, exports, cursor]
RECURSIVE serialize_exports_read(_, _, _, _, _, _)
serialize_exports_read(stream, pos, count, is_ucas, ver, exports) ==
    IF count = 0 THEN [raises |-> FALSE, exports |-> exports, cursor |-> pos]
    ELSE IF is_ucas
    THEN LET r == ZenExport_read(stream, pos)
         IN  IF r.raises THEN [raises |-> TRUE, exports |-> exports, cursor |-> r.cursor]
             ELSE serialize_exports_read(stream, r.cursor, count - 1, is_ucas, ver,
                                         Append(exports, r.export))
    ELSE LET r == UassetExport_read(stream, pos, ver)
         IN  serialize_exports_read(stream, r.cursor, count - 1, is_ucas, ver,
                                    Append(exports, r.export))

\* serialize_exports with a writing archive: the bytes written
RECURSIVE serialize_exports_write(_, _, _)
serialize_exports_write(exports, is_ucas, ver) ==
    IF Len(exports) = 0 THEN <<>>
    ELSE (IF is_ucas THEN ZenExport_write(exports[1])
          ELSE UassetExport_write(exports[1], ver))
         \o serialize_exports_write(Tail(exports), is_ucas, ver)

\* skip_exports: ar.seek(get_struct_size(ar.version) * count, 1), the cursor after
skip_exports(pos, count, is_ucas, ver) ==
    pos + count * (IF is_ucas THEN ZenExport_get_struct_size
                   ELSE UassetExport_get_struct_size(ver))

\* the object indices of the sample zen exports: each type with the ids 0, 1,
\* the hash of /Script/Engine.Texture2D and the 62 bits all set
SampleIds ==
    {<<0, 0, 0, 0, 0, 0, 0, 0>>, <<1, 0, 0, 0, 0, 0, 0, 0>>,
     <<111, 250, 209, 150, 167, 188, 147, 27>>,
     <<255, 255, 255, 255, 255, 255, 255, 63>>}

SampleIndexWords ==
    {[id EXCEPT ![8] = @ + 64 * type] : id \in SampleIds, type \in 0..3}

\* the bytes of a zen export entry of the name name_id with the class and
\* template indices given; the outer and the super index are invalid
SampleZenEntry(name_id, class_index, template_index) ==
    <<0, 1, 0, 0, 0, 0, 0, 0>> \o <<64, 0, 0, 0, 0, 0, 0, 0>>
    \o <<name_id, 0, 0, 0>> \o <<0, 0, 0, 0>>
    \o <<255, 255, 255, 255, 255, 255, 255, 255>>
    \o class_index
    \o <<255, 255, 255, 255, 255, 255, 255, 255>>
    \o template_index
    \o <<17, 34, 51, 68, 85, 102, 119, 8>>
    \o <<9, 0, 0, 0>> \o <<3>> \o <<0, 0, 0>>

\* a zen export table: the first export is a Texture2D by its script object
\* hash, the second has the two indices given; the bytes of the next table
\* follow
SampleZenTable(count, class_index, template_index) ==
    SampleZenEntry(0, <<111, 250, 209, 150, 167, 188, 147, 91>>,
                   <<255, 255, 255, 255, 255, 255, 255, 255>>)
    \o (IF count > 1 THEN SampleZenEntry(1, class_index, template_index) ELSE <<>>)
    \o bytes_of([i \in 1..((count - Min(count, 2)) * 72) |-> 0])
    \o <<7, 7, 7, 7>>

\* the bytes of a uasset with its export table at offset 0: long enough for
\* MaxExportNum + 1 exports of the largest layout
SampleUassetTable ==
    bytes_of([i \in 1..((MaxExportNum + 1) * 108 + 4) |-> (i * 7 + 3) % 100])

\* the names of the name map
SampleExportNames == <<"T_Sample", "T_Other">>

InitExports ==
    /\ \/ /\ version \in {VersionInfo(v) : v \in UE_VERSIONS}
          /\ \E count \in 1..MaxExportNum :
                /\ arg = [is_ucas |-> FALSE, count |-> count, cursor |-> 0]
                /\ file = SampleUassetTable
       \/ /\ version \in {VersionInfo(v) : v \in ZenVersions}
          /\ \E count \in 1..MaxExportNum :
                \E class_index \in SampleIndexWords, template_index \in SampleIndexWords :
                   /\ arg = [is_ucas |-> TRUE, count |-> count, cursor |-> 0]
                   /\ file = SampleZenTable(count, class_index, template_index)
    /\ tex = <<>>
    /\ op = "init"
    /\ result = "ok"
    /\ dds = <<>>
    /\ saved = <<>>

\* serialize_exports with a reading archive at the start of the table
SerializeExports ==
    /\ op = "init"
    /\ LET r == serialize_exports_read(file, arg.cursor, arg.count, arg.is_ucas,
                                       version, <<>>)
       IN  /\ tex' = r.exports
           /\ result' = IF r.raises THEN "error" ELSE "ok"
           /\ arg' = [arg EXCEPT !.cursor = r.cursor]
    /\ op' = "read"
    /\ UNCHANGED <<version, file, dds, saved>>

\* skip_exports at the start of the table
SkipExports ==
    /\ op = "init"
    /\ arg' = [arg EXCEPT !.cursor = skip_exports(arg.cursor, arg.count, arg.is_ucas, version)]
    /\ op' = "skip"
    /\ UNCHANGED <<version, tex, file, result, dds, saved>>

\* name_export of each export of a zen package
NameExports ==
    /\ op = "read"
    /\ result = "ok"
    /\ arg.is_ucas
    /\ LET r == name_exports(tex, 1, SampleExportNames)
       IN  /\ tex' = r[2]
           /\ result' = IF r[1] THEN "error" ELSE "ok"
    /\ op' = "name"
    /\ UNCHANGED <<version, arg, file, dds, saved>>

\* serialize_exports with a writing archive
WriteExports ==
    /\ op \in {"read", "name"}
    /\ result = "ok"
    /\ saved' = serialize_exports_write(tex, arg.is_ucas, version)
    /\ op' = "write"
    /\ UNCHANGED <<version, tex, arg, file, result, dds>>

NextExports ==
    \/ SerializeExports
    \/ SkipExports
    \/ NameExports
    \/ WriteExports

SpecExports == InitExports /\ [][NextExports]_vars

\* the word of an object index as read, with bit b of the 64 (0 the lowest)
WordBit(word, b) == HasBit(word[(b \div 8) + 1], b % 8)

\* C28: an object index read from a zen export has type = the top 2 bits and
\* id = the low 62 bits of its word and is written back as the same word;
\* is_export() is true exactly when the type is Export (0), and a class,
\* super or template index of type Export that is not the invalid word
\* resolves to the name of exports[id]
C28_ZenImportWord ==
    (op \in {"read", "name", "write"} /\ arg.is_ucas /\ result = "ok")
    => \A i \in 1..Len(tex) :
          LET index == tex[i].class_index
              word == SubSeq(file, 72 * (i - 1) + 33, 72 * (i - 1) + 40)
          IN  /\ index.type = (IF WordBit(word, 63) THEN 2 ELSE 0)
                              + (IF WordBit(word, 62) THEN 1 ELSE 0)
              /\ \A b \in 0..63 :
                    WordBit(index.id, b) <=> (b < INDEX_BITS /\ WordBit(word, b))
              /\ ZenImport_write(index) = word
              /\ op = "write" => SubSeq(saved, 72 * (i - 1) + 33, 72 * (i - 1) + 40) = word
              /\ is_export(index) <=> index.type = ImportType_Export
              /\ (op = "name" /\ index.type = ImportType_Export /\ ~is_invalid(index))
                 => tex[i].class_name = tex[id_as_index(index.id) + 1].name


\* C30: for every version of UE_VERSIONS, reading or writing one uasset
\* export moves UassetExport.get_struct_size(version) bytes and a zen export
\* moves 72 bytes, so skip_exports(count) puts the cursor where reading the
\* count exports puts it, at the end of the export table
C30_ExportStructSize ==
    /\ (op = "read" /\ result = "ok")
       => arg.cursor = arg.count * (IF arg.is_ucas THEN 72
                                    ELSE UassetExport_get_struct_size(version))
    /\ op = "write"
       => /\ Len(saved) = arg.count * (IF arg.is_ucas THEN 72
                                       ELSE UassetExport_get_struct_size(version))
          /\ saved = SubSeq(file, 1, Len(saved))
    /\ op = "skip"
       => arg.cursor = serialize_exports_read(file, 0, arg.count, arg.is_ucas,
                                              version, <<>>).cursor

\* C30, its case: two uasset exports of 4.16, the first version with the
\* 64-bit size field, were skipped, 208 bytes
C30_Witness ==
    /\ op = "skip"
    /\ ~arg.is_ucas
    /\ version.base = "4.16"
    /\ arg.count = 2
    /\ arg.cursor = 208


(***************************************************************************)
(* unreal/utexture.py: a texture is read from a package whose packed_data  *)
(* word carries flag bits, as a package cooked by 4.24 or later does, with *)
(* each version the tool is asked to read it as.                           *)
(***************************************************************************)
PackedVersions == {"4.18", "4.23", "4.24", "4.27", "ff7r", "borderlands3"}

\* the sample files; for a version that has no flags in packed_data, also
\* with bit 30, bit 31 or both set in the word
FlaggedFiles(t, ver) ==
    IF VersionGE(ver, "4.24") \/ VersionEQ(ver, "ff7r")
    THEN SampleFiles(t, ver)
    ELSE {[f EXCEPT !.packed_data.bits = bits] :
             f \in SampleFiles(t, ver), bits \in SUBSET {30, 31}}

InitPacked ==
    /\ version \in {VersionInfo(v) : v \in PackedVersions}
    /\ tex \in {Utexture_init(c) : c \in Classes}
    /\ op = "init"
    /\ result = "ok"
    /\ arg = <<>>
    /\ dds = <<>>
    /\ file = <<>>
    /\ saved = <<>>

\* Utexture.serialize(uexp_io) with a reading archive; file keeps the record read
LoadFlagged ==
    /\ ~tex.loaded
    /\ op = "init"
    /\ \E f \in FlaggedFiles(tex, version) :
          /\ file' = f
          /\ IF serialize_read_raises(tex, f, version)
             THEN /\ result' = "error"
                  /\ tex' = tex
             ELSE /\ result' = "ok"
                  /\ tex' = serialize_read(tex, f, version)
    /\ op' = "load"
    /\ UNCHANGED <<version, arg, dds, saved>>

NextPacked == LoadFlagged

SpecPacked == InitPacked /\ [][NextPacked]_vars

\* C29: for a version below 4.24 other than ff7r, reading a texture whose
\* packed_data word has bit 30 or bit 31 set fails with an error, so a
\* texture that was read has its num_slices from a word with both bits clear
C29_PackedFlagsRejected ==
    (/\ op = "load"
     /\ ~(VersionGE(version, "4.24") \/ VersionEQ(version, "ff7r"))
     /\ file.packed_data.bits # {})
    => result = "error"


====
